---- MODULE Spec2Model ----
(***************************************************************************)
(* Air1-Monitor: the MQTT listener thread (src/src/mqtt.rs, run_listener)  *)
(* and the UI thread that starts it, stops it and drains its events        *)
(* (src/src/app.rs, Air1App).                                              *)
(*                                                                         *)
(* Each listener thread is a little program counter machine: one step per  *)
(* blocking call or loop test of run_listener.  The UI thread runs         *)
(* frames: poll_mqtt drains the event channel, then draw_settings handles  *)
(* at most one click.  JoinHandle::join blocks the UI thread, so the UI    *)
(* thread has a position too.                                              *)
(***************************************************************************)
EXTENDS Integers, Sequences, FiniteSets, TLC

\* ---------------------------------------------------------------- bounds
MaxInst == 2        \* listener threads ever started
MaxAttempts == 2    \* connection attempts, all listeners together
MaxPub == 1         \* publishes delivered, all listeners together
MaxFailures == 7    \* BackoffSpec: failed attempts in a row, per listener
MaxDeliveries == 2  \* SessionSpec: publishes delivered, per listener
MaxEvents == 4      \* ReducerSpec: events sent into the channel
MaxItems == 4       \* NormalizeSpec: sections and gauges of a configuration
MaxPasses == 2      \* NormalizeSpec: calls of normalize on a configuration
MaxCalls == 4       \* SecretSpec: calls of the functions of secrets.rs
MaxTests == 1       \* TestSpec: clicks on Test connection
MaxOther == 1       \* TestSpec: packets other than ConnAck that a test takes
MaxPrefix == 4      \* SubsSpec: characters of a topic prefix
MaxTokens == 2      \* ClassifySpec: pieces of a sensor name
MaxPayload == 2     \* PublishSpec: characters of a payload
MaxTopic == 3       \* PublishSpec: pieces of a topic
MaxElapsed == 123   \* DrawSpec: half seconds since the last reading

\* ------------------------------------------------------ program constants
InitialBackoff == 1
BackoffCap == 30
BackoffFactor == 2

Inst == 1..MaxInst
None == "none"

VARIABLES
    \* --- run_listener, one entry per started thread
    lpc,          \* position in run_listener ("unborn" before the spawn)
    backoff,      \* `backoff`, whole seconds
    attempt,      \* history: loop iterations that went on to build_options
    stopped,      \* `stopped`
    reason,       \* `disconnect_reason` (None or the error text)
    stopQ,        \* messages waiting in the thread's stop channel
    acked,        \* the broker has sent ConnAck in the current attempt
    pubs,         \* publishes delivered so far
    emitted,      \* history: every event the thread has sent, in order
    pings,        \* notifications other than ConnAck and Publish that the
                  \* receive loop has taken from this connection, mod 2
    observedAt,   \* history: Len(emitted) when the stop request was seen,
                  \* -1 before
    observedIn,   \* history: where it was seen ("top", "recv" or "wait")
    failedAt,     \* history: Len(emitted) when build_options failed, else -1
    \* --- the event channel mqtt_tx -> mqtt_rx
    chan,
    \* --- Air1App
    apc,          \* "poll", "ui", "pollJoin", "stopJoin"
    joinOn,       \* the thread a blocked join waits for
    connected,
    status,
    mqtt_handle,  \* 0 = None, else the thread
    mqtt_stop,    \* 0 = None, else the thread whose stop sender is held
    cfgTls,       \* cfg.mqtt.tls
    hasUser,      \* cfg.mqtt.username.is_some()
    hasPw,        \* password.is_some()
    nextInst,
    applied,      \* history: every event poll_mqtt has applied, in order
    metrics,      \* `metrics`, the Metrics struct
    dashboard,    \* cfg.dashboard.sections
    normalized,   \* history: the arguments of the calls of
                  \* DashboardConfig::normalize so far
    \* --- histories of the narrower specifications
    waits,        \* per thread: the backoff waits started, each with whether
                  \* the session before it lasted 60 s or more
    delivered,    \* per thread: the publishes the receive loop has matched
    \* --- startup: the configuration file and the platform keyring
    file,         \* what Air1App::init finds on disk
    loaded,       \* history: the outcome of reading the configuration in
                  \* init, <<>> before init has run
    cfgMqtt,      \* cfg.mqtt: host, port, qos, keepalive_secs,
                  \* remember_password
    keyring_unavailable,
    keyring,      \* the entry "mqtt_password" of the service "air1-monitor"
                  \* in the platform keyring: None or Some(secret)
    secretLog,    \* history: the calls of load_password, save_password and
                  \* delete_password made so far, each with its result
    password,     \* `password`: None or Some(secret); hasPw says whether it
                  \* is Some
    \* --- the Test connection button and its thread
    testing,
    test_rx,      \* the results waiting in the channel test_tx -> test_rx
    tthread,      \* the thread that runs test_connection: its position, the
                  \* arguments it was spawned with and, as history, the
                  \* notifications it has taken
    tested,       \* history: the calls of test_connection that have
                  \* returned, each with its result
    \* --- the functions checked on their own
    sensor,       \* the sensor name handed to map_sensor_kind
    classified,   \* <<>>, or <<what map_sensor_kind returned>>
    topic_prefix, \* cfg.mqtt.topic_prefix: None or Some(prefix)
    subs,         \* <<>>, or what subscriptions(&cfg) returned
    publish,      \* the Publish packets the broker is about to deliver, as
                  \* text
    mapped,       \* what map_publish returned for those delivered so far
    drawn         \* history: <<>>, or the frame drawn: what it read and the
                  \* availability label it showed

lvars == <<lpc, backoff, attempt, stopped, reason, stopQ, acked, pubs, pings,
           emitted, observedAt, observedIn, failedAt>>
svars == <<file, loaded, cfgMqtt, keyring_unavailable, keyring, secretLog,
           password>>
tvars == <<testing, test_rx, tthread, tested>>
pvars == <<sensor, classified, topic_prefix, subs, publish, mapped,
           drawn>>
dvars == <<dashboard, normalized, svars, tvars, pvars>>
avars == <<apc, joinOn, connected, status, mqtt_handle, mqtt_stop, cfgTls,
           hasUser, hasPw, nextInst, applied, metrics, dvars>>
hvars == <<waits, delivered>>
vars == <<lvars, chan, avars, hvars>>

\* ---------------------------------------------------------------- events
\* MqttEvent.  src and att are history fields (the thread and the attempt
\* that produced the event); the program's events do not carry them.
Event(i, type, text, topic, kind, value) ==
    [type |-> type, text |-> text, topic |-> topic, kind |-> kind,
     value |-> value, src |-> i, att |-> attempt[i]]

EvConnected(i) == Event(i, "Connected", "", "", "", 0)
EvDisconnected(i, r) == Event(i, "Disconnected", r, "", "", 0)
EvStatus(i, msg, n) == Event(i, "Status", msg, "", "", n)
EvMetric(i, topic, kind, value) == Event(i, "Metric", "", topic, kind, value)

StatusLine(text, arg, n) == [text |-> text, arg |-> arg, secs |-> n]

Min(a, b) == IF a < b THEN a ELSE b

Last(s) == s[Len(s)]

RECURSIVE SumUpTo(_, _)
SumUpTo(f, n) == IF n = 0 THEN 0 ELSE f[n] + SumUpTo(f, n - 1)

\* the sum of a per-thread counter over all threads
Total(f) == SumUpTo(f, MaxInst)

\* Send into a channel that hands out the newest message first
Send_NewestFirst(i, evs) ==
    /\ emitted' = [emitted EXCEPT ![i] = @ \o evs]
    /\ chan' = evs \o chan

\* tx.send(ev) for each ev of evs, in order: the channel is unbounded and
\* a send never blocks
Send(i, evs) ==
    /\ emitted' = [emitted EXCEPT ![i] = @ \o evs]
    /\ chan' = chan \o evs

\* ----------------------------------------------------------------- strings
\* A string whose characters the program looks at is a sequence of
\* characters.
Whitespace == {" ", "\t", "\n", "\r"}

\* str::trim_start
RECURSIVE trim_start(_)
trim_start(s) ==
    IF s # <<>> /\ Head(s) \in Whitespace THEN trim_start(Tail(s)) ELSE s

\* str::trim_end
RECURSIVE trim_end(_)
trim_end(s) ==
    IF s # <<>> /\ Last(s) \in Whitespace
    THEN trim_end(SubSeq(s, 1, Len(s) - 1))
    ELSE s

\* str::trim
trim(s) == trim_end(trim_start(s))

\* str::ends_with
ends_with(s, pat) ==
    Len(pat) <= Len(s) /\ SubSeq(s, Len(s) - Len(pat) + 1, Len(s)) = pat

\* str::contains
contains(s, pat) ==
    \E k \in 0..(Len(s) - Len(pat)) : SubSeq(s, k + 1, k + Len(pat)) = pat

\* str::trim_end_matches: the pattern is taken off the end as often as it
\* is there
RECURSIVE trim_end_matches(_, _)
trim_end_matches(s, pat) ==
    IF pat # <<>> /\ ends_with(s, pat)
    THEN trim_end_matches(SubSeq(s, 1, Len(s) - Len(pat)), pat)
    ELSE s

UpperCase ==
    <<"A", "B", "C", "D", "E", "F", "G", "H", "I", "J", "K", "L", "M", "N",
      "O", "P", "Q", "R", "S", "T", "U", "V", "W", "X", "Y", "Z">>

LowerCase ==
    <<"a", "b", "c", "d", "e", "f", "g", "h", "i", "j", "k", "l", "m", "n",
      "o", "p", "q", "r", "s", "t", "u", "v", "w", "x", "y", "z">>

\* str::to_ascii_lowercase
to_ascii_lowercase(s) ==
    [k \in DOMAIN s |->
        IF \E u \in DOMAIN UpperCase : UpperCase[u] = s[k]
        THEN LowerCase[CHOOSE u \in DOMAIN UpperCase : UpperCase[u] = s[k]]
        ELSE s[k]]

\* str::split(sep): the pieces between the separators, at least one
RECURSIVE split(_, _)
split(s, sep) ==
    IF \E k \in DOMAIN s : s[k] = sep
    THEN LET k == CHOOSE j \in DOMAIN s :
                      s[j] = sep /\ \A h \in 1..(j - 1) : s[h] # sep
         IN  <<SubSeq(s, 1, k - 1)>> \o split(SubSeq(s, k + 1, Len(s)), sep)
    ELSE <<s>>

Digits == <<"0", "1", "2", "3", "4", "5", "6", "7", "8", "9">>

AllDigits(s) == \A k \in DOMAIN s : \E d \in DOMAIN Digits : Digits[d] = s[k]

\* the number a string of decimal digits writes
RECURSIVE DecimalValue(_)
DecimalValue(s) ==
    IF s = <<>> THEN 0
    ELSE 10 * DecimalValue(SubSeq(s, 1, Len(s) - 1))
         + (CHOOSE d \in DOMAIN Digits : Digits[d] = Last(s)) - 1

\* Result: Ok(value) and Err(error)
Ok(v) == [ok |-> TRUE, value |-> v]

Err(e) == [ok |-> FALSE, error |-> e]

\* ------------------------------------------------------------ map_publish
\* A publish is a topic (its '/'-separated segments) and a payload.
Publishes ==
    { [topic |-> <<"home", "sensor", "pm_2_5mm_weight_concentration">>,
       payload |-> "12.3"],
      [topic |-> <<"home", "sensor", "uptime">>, payload |-> "7"],
      [topic |-> <<"home", "sensor", "temperature">>,
       payload |-> "not-a-number"] }

\* the string literals of map_sensor_kind (mqtt.rs 225-245), character by
\* character
Pattern ==
    [pm_1mm |->
        <<"p", "m", "_", "1", "m", "m", "_", "w", "e", "i", "g", "h", "t",
          "_", "c", "o", "n", "c", "e", "n", "t", "r", "a", "t", "i", "o",
          "n">>,
     pm_2_5mm |->
        <<"p", "m", "_", "2", "_", "5", "m", "m", "_", "w", "e", "i", "g",
          "h", "t", "_", "c", "o", "n", "c", "e", "n", "t", "r", "a", "t",
          "i", "o", "n">>,
     pm_10mm |->
        <<"p", "m", "_", "1", "0", "m", "m", "_", "w", "e", "i", "g", "h",
          "t", "_", "c", "o", "n", "c", "e", "n", "t", "r", "a", "t", "i",
          "o", "n">>,
     pm_1_to_2_5 |->
        <<"p", "m", "_", "1", "_", "t", "o", "_", "2", "_", "5">>,
     pm_0_3_to_1 |->
        <<"p", "m", "_", "0", "_", "3", "_", "t", "o", "_", "1">>,
     pm_2_5_to_4 |->
        <<"p", "m", "_", "2", "_", "5", "_", "t", "o", "_", "4">>,
     pm_4_to_10 |->
        <<"p", "m", "_", "4", "_", "t", "o", "_", "1", "0">>,
     voc |->
        <<"v", "o", "c">>,
     sen55_voc |->
        <<"s", "e", "n", "5", "5", "_", "v", "o", "c">>,
     co2 |->
        <<"c", "o", "2">>,
     temp |->
        <<"t", "e", "m", "p">>,
     temperature |->
        <<"t", "e", "m", "p", "e", "r", "a", "t", "u", "r", "e">>,
     humidity |->
        <<"h", "u", "m", "i", "d", "i", "t", "y">>,
     hum |->
        <<"h", "u", "m">>,
     sen55_humidity |->
        <<"s", "e", "n", "5", "5", "_", "h", "u", "m", "i", "d", "i", "t",
          "y">>]

\* the characters of the topic segments of the publishes above
Chars(segment) ==
    CASE segment = "pm_2_5mm_weight_concentration" -> Pattern.pm_2_5mm
      [] segment = "temperature" -> Pattern.temperature
      [] segment = "uptime" -> <<"u", "p", "t", "i", "m", "e">>
      [] segment = "home" -> <<"h", "o", "m", "e">>
      [] segment = "sensor" -> <<"s", "e", "n", "s", "o", "r">>

\* map_sensor_kind with "voc" for the volatile organic compounds
map_sensor_kind_VocKind(name) ==
    LET n == to_ascii_lowercase(name)
    IN  IF ends_with(n, Pattern.pm_1mm) THEN "pm1"
        ELSE IF ends_with(n, Pattern.pm_2_5mm) THEN "pm25"
        ELSE IF ends_with(n, Pattern.pm_10mm) THEN "pm10"
        ELSE IF contains(n, Pattern.pm_1_to_2_5) THEN "pm25"
        ELSE IF contains(n, Pattern.pm_0_3_to_1) THEN "pm1"
        ELSE IF contains(n, Pattern.pm_2_5_to_4) THEN "pm25"
        ELSE IF contains(n, Pattern.pm_4_to_10) THEN "pm10"
        ELSE IF contains(n, Pattern.voc) \/ contains(n, Pattern.sen55_voc)
        THEN "voc"
        ELSE IF contains(n, Pattern.co2) THEN "co2"
        ELSE IF contains(n, Pattern.temp)
                \/ contains(n, Pattern.temperature)
        THEN "temp"
        ELSE IF contains(n, Pattern.humidity) \/ contains(n, Pattern.hum)
                \/ contains(n, Pattern.sen55_humidity)
        THEN "humidity"
        ELSE None

\* map_sensor_kind that looks at the name as it is written
map_sensor_kind_CaseSensitive(name) ==
    LET n == name
    IN  IF ends_with(n, Pattern.pm_1mm) THEN "pm1"
        ELSE IF ends_with(n, Pattern.pm_2_5mm) THEN "pm25"
        ELSE IF ends_with(n, Pattern.pm_10mm) THEN "pm10"
        ELSE IF contains(n, Pattern.pm_1_to_2_5) THEN "pm25"
        ELSE IF contains(n, Pattern.pm_0_3_to_1) THEN "pm1"
        ELSE IF contains(n, Pattern.pm_2_5_to_4) THEN "pm25"
        ELSE IF contains(n, Pattern.pm_4_to_10) THEN "pm10"
        ELSE IF contains(n, Pattern.voc) \/ contains(n, Pattern.sen55_voc)
        THEN "tvoc"
        ELSE IF contains(n, Pattern.co2) THEN "co2"
        ELSE IF contains(n, Pattern.temp)
                \/ contains(n, Pattern.temperature)
        THEN "temp"
        ELSE IF contains(n, Pattern.humidity) \/ contains(n, Pattern.hum)
                \/ contains(n, Pattern.sen55_humidity)
        THEN "humidity"
        ELSE None

\* mqtt.rs 223-250: the name in lower case, then the first rule that
\* applies; None when none does
map_sensor_kind(name) ==
    LET n == to_ascii_lowercase(name)
    IN  IF ends_with(n, Pattern.pm_1mm) THEN "pm1"
        ELSE IF ends_with(n, Pattern.pm_2_5mm) THEN "pm25"
        ELSE IF ends_with(n, Pattern.pm_10mm) THEN "pm10"
        ELSE IF contains(n, Pattern.pm_1_to_2_5) THEN "pm25"
        ELSE IF contains(n, Pattern.pm_0_3_to_1) THEN "pm1"
        ELSE IF contains(n, Pattern.pm_2_5_to_4) THEN "pm25"
        ELSE IF contains(n, Pattern.pm_4_to_10) THEN "pm10"
        ELSE IF contains(n, Pattern.voc) \/ contains(n, Pattern.sen55_voc)
        THEN "tvoc"
        ELSE IF contains(n, Pattern.co2) THEN "co2"
        ELSE IF contains(n, Pattern.temp)
                \/ contains(n, Pattern.temperature)
        THEN "temp"
        ELSE IF contains(n, Pattern.humidity) \/ contains(n, Pattern.hum)
                \/ contains(n, Pattern.sen55_humidity)
        THEN "humidity"
        ELSE None

\* An f64 as the decimal number it was read from: mant * 10^exp10 with no
\* trailing zero in mant, or an infinity, or NaN
RECURSIVE Normal(_, _, _)
Normal(neg, mant, exp10) ==
    IF mant = 0
    THEN [class |-> "finite", neg |-> neg, mant |-> 0, exp10 |-> 0]
    ELSE IF mant % 10 = 0 THEN Normal(neg, mant \div 10, exp10 + 1)
    ELSE [class |-> "finite", neg |-> neg, mant |-> mant, exp10 |-> exp10]

\* str::parse::<f64>().ok() (mqtt.rs 215).  <f64 as FromStr> takes
\*   Float  ::= Sign? ( 'inf' | 'infinity' | 'nan' | Number )
\*   Number ::= ( Digit+ | Digit+ '.' Digit* | Digit* '.' Digit+ ) Exp?
\*   Exp    ::= 'e' Sign? Digit+
\* with letters in either case and nothing before or after.  An Option is a
\* sequence of length 0 (None) or 1 (Some).
ParseF64(s) ==
    LET signed == s # <<>> /\ s[1] \in {"+", "-"}
        neg == signed /\ s[1] = "-"
        low == to_ascii_lowercase(IF signed THEN Tail(s) ELSE s)
        es == {k \in DOMAIN low : low[k] = "e"}
        e == CHOOSE k \in es : \A j \in es : k <= j
        number == IF es = {} THEN low ELSE SubSeq(low, 1, e - 1)
        exp == IF es = {} THEN <<>> ELSE SubSeq(low, e + 1, Len(low))
        expSigned == exp # <<>> /\ exp[1] \in {"+", "-"}
        expDigits == IF expSigned THEN Tail(exp) ELSE exp
        expValue == IF es = {} THEN 0
                    ELSE IF exp[1] = "-" THEN 0 - DecimalValue(expDigits)
                    ELSE DecimalValue(expDigits)
        dots == {k \in DOMAIN number : number[k] = "."}
        dot == CHOOSE k \in dots : \A j \in dots : k <= j
        whole == IF dots = {} THEN number ELSE SubSeq(number, 1, dot - 1)
        fraction == IF dots = {} THEN <<>>
                    ELSE SubSeq(number, dot + 1, Len(number))
    IN  IF low \in {<<"i", "n", "f">>,
                    <<"i", "n", "f", "i", "n", "i", "t", "y">>}
        THEN <<[class |-> "inf", neg |-> neg, mant |-> 0, exp10 |-> 0]>>
        ELSE IF low = <<"n", "a", "n">>
        THEN <<[class |-> "nan", neg |-> FALSE, mant |-> 0, exp10 |-> 0]>>
        ELSE IF /\ AllDigits(whole)
                /\ AllDigits(fraction)
                /\ Len(whole) + Len(fraction) >= 1
                /\ es # {} => (expDigits # <<>> /\ AllDigits(expDigits))
        THEN <<Normal(neg, DecimalValue(whole \o fraction),
                      expValue - Len(fraction))>>
        ELSE <<>>

\* map_publish that reports 0 when the payload is not a number
map_publish_ZeroOnBadPayload(p) ==
    LET payload == trim(p.payload)
        segments == split(p.topic, "/")
        name == Last(segments)
        kind == map_sensor_kind(name)
        value == ParseF64(payload)
    IN  IF kind = None
        THEN <<>>
        ELSE <<[kind |-> kind,
                value |-> IF value = <<>> THEN Normal(FALSE, 0, 0)
                          ELSE value[1]]>>

\* map_publish that classifies the first segment of the topic
map_publish_FirstSegment(p) ==
    LET payload == trim(p.payload)
        segments == split(p.topic, "/")
        name == Head(segments)
        kind == map_sensor_kind(name)
        value == ParseF64(payload)
    IN  IF kind = None \/ value = <<>>
        THEN <<>>
        ELSE <<[kind |-> kind, value |-> value[1]]>>

\* mqtt.rs 206-221 on the topic and the payload of a Publish packet, both as
\* text (from_utf8_lossy has put U+FFFD where the payload was not UTF-8):
\* None, or Some of the kind and value of the Metric event.  split gives at
\* least one segment, so neither `return None` at 211 nor the `?` at 213 is
\* ever taken.
map_publish(p) ==
    LET payload == trim(p.payload)
        segments == split(p.topic, "/")
        name == Last(segments)
        kind == map_sensor_kind(name)
        value == ParseF64(payload)
    IN  IF kind = None \/ value = <<>>
        THEN <<>>
        ELSE <<[kind |-> kind, value |-> value[1]]>>

\* The publishes of a session whose deliveries are recorded: those above
\* and a second reading of the same sensor.
SessionPublishes ==
    Publishes \cup
    { [topic |-> <<"home", "sensor", "pm_2_5mm_weight_concentration">>,
       payload |-> "7"] }

\* the characters of a payload of the publishes above
PayloadChars(payload) ==
    CASE payload = "12.3" -> <<"1", "2", ".", "3">>
      [] payload = "7" -> <<"7">>
      [] payload = "not-a-number" ->
            <<"n", "o", "t", "-", "a", "-", "n", "u", "m", "b", "e", "r">>

\* the segments of a topic put together again
RECURSIVE Join(_)
Join(segments) ==
    IF Len(segments) = 1 THEN Chars(segments[1])
    ELSE Chars(segments[1]) \o <<"/">> \o Join(Tail(segments))

\* a reading in tenths, as the events of the listeners below carry it
RECURSIVE Tenths(_)
Tenths(v) ==
    IF v.exp10 = -1
    THEN IF v.neg THEN 0 - v.mant ELSE v.mant
    ELSE 10 * Tenths([v EXCEPT !.exp10 = @ - 1])

\* mqtt.rs 93: map_publish(&p) for each of the publishes above
Mapped ==
    [p \in SessionPublishes |->
        LET m == map_publish([topic |-> Join(p.topic),
                              payload |-> PayloadChars(p.payload)])
        IN  IF m = <<>> THEN <<>>
            ELSE <<[kind |-> m[1].kind, value |-> Tenths(m[1].value)]>>]

\* ----------------------------------------------------------- run_listener
\* What connection.iter() can yield next.  ConnAck comes once per attempt,
\* publishes only after it; an error or the end of the stream at any time.
Notifications(i) ==
    {[n |-> "other"], [n |-> "err"], [n |-> "eof"]}
    \cup (IF acked[i] THEN {} ELSE {[n |-> "connack"]})
    \cup (IF acked[i] /\ Total(pubs) < MaxPub
          THEN {[n |-> "publish", p |-> p] : p \in Publishes}
          ELSE {})

\* history: the thread sees the stop request at `where`
Observe(i, where) ==
    /\ observedAt' = [observedAt EXCEPT ![i] = Len(emitted[i])]
    /\ observedIn' = [observedIn EXCEPT ![i] = where]

\* mqtt.rs 57-63: stop_rx.try_recv().is_ok() at the top of the loop; on a
\* stop request the Status, the Disconnected("stopped"), break and return
LoopTop(i) ==
    /\ lpc[i] = "top"
    /\ IF stopQ[i] > 0
       THEN /\ stopQ' = [stopQ EXCEPT ![i] = @ - 1]
            /\ Observe(i, "top")
            /\ Send(i, <<EvStatus(i, "MQTT stop requested", 0),
                         EvDisconnected(i, "stopped")>>)
            /\ lpc' = [lpc EXCEPT ![i] = "done"]
            /\ UNCHANGED attempt
       ELSE /\ Total(attempt) < MaxAttempts
            /\ attempt' = [attempt EXCEPT ![i] = @ + 1]
            /\ lpc' = [lpc EXCEPT ![i] = "build"]
            /\ UNCHANGED <<stopQ, observedAt, observedIn, emitted, chan>>
    /\ UNCHANGED <<backoff, stopped, reason, acked, pubs, pings, failedAt,
                   avars, hvars>>

\* tls_config (mqtt.rs 170-196, called from build_options at 146-149):
\* reading or parsing the CA file can fail, or no certificate is usable;
\* without TLS build_options cannot fail
build_options == IF cfgTls THEN {"ok", "err"} ELSE {"ok"}

\* Connect without the send at line 78
Connect_NoConnected(i) ==
    /\ lpc[i] = "build"
    /\ acked' = [acked EXCEPT ![i] = FALSE]
    /\ \E r \in build_options :
          IF r = "ok"
          THEN /\ Send(i, <<EvStatus(i, "MQTT connected; subs", 0)>>)
               /\ stopped' = [stopped EXCEPT ![i] = FALSE]
               /\ reason' = [reason EXCEPT ![i] = None]
               /\ lpc' = [lpc EXCEPT ![i] = "recv"]
               /\ UNCHANGED failedAt
          ELSE /\ lpc' = [lpc EXCEPT ![i] = "done"]
               /\ failedAt' = [failedAt EXCEPT ![i] = Len(emitted[i])]
               /\ UNCHANGED <<stopped, reason, emitted, chan>>
    /\ UNCHANGED <<backoff, attempt, stopQ, pubs, pings, observedAt,
                   observedIn, avars, hvars>>

\* mqtt.rs 65-81: build_options(..)?, Client::new, subscribe(..)?, the two
\* sends.  The `?` returns the error from run_listener.  Client::new only
\* creates the request queue and subscribe only queues the request: the
\* connection is made later, by connection.iter().
Connect(i) ==
    /\ lpc[i] = "build"
    /\ acked' = [acked EXCEPT ![i] = FALSE]
    /\ \E r \in build_options :
          IF r = "ok"
          THEN /\ Send(i, <<EvStatus(i, "MQTT connected; subs", 0),
                            EvConnected(i)>>)
               /\ stopped' = [stopped EXCEPT ![i] = FALSE]
               /\ reason' = [reason EXCEPT ![i] = None]
               /\ lpc' = [lpc EXCEPT ![i] = "recv"]
               /\ UNCHANGED failedAt
          ELSE /\ lpc' = [lpc EXCEPT ![i] = "done"]
               /\ failedAt' = [failedAt EXCEPT ![i] = Len(emitted[i])]
               /\ UNCHANGED <<stopped, reason, emitted, chan>>
    /\ UNCHANGED <<backoff, attempt, stopQ, pubs, pings, observedAt,
                   observedIn, avars, hvars>>

\* mqtt.rs 92-96: a Publish packet has come and map_publish has returned m
OnPublish(i, topic, m) ==
    /\ pubs' = [pubs EXCEPT ![i] = @ + 1]
    /\ IF m = <<>>
       THEN UNCHANGED <<emitted, chan>>
       ELSE Send(i, <<EvMetric(i, topic, m[1].kind, m[1].value)>>)
    /\ UNCHANGED <<lpc, reason, acked, pings>>

\* mqtt.rs 91-103: the match on the notification
OnNotification(i, nt) ==
    CASE nt.n = "publish" ->
            OnPublish(i, nt.p.topic, Mapped[nt.p])
      [] nt.n = "connack" ->
            /\ acked' = [acked EXCEPT ![i] = TRUE]
            /\ UNCHANGED <<lpc, reason, pubs, pings, emitted, chan>>
      [] nt.n = "other" ->
            /\ pings' = [pings EXCEPT ![i] = 1 - @]
            /\ UNCHANGED <<lpc, reason, acked, pubs, emitted, chan>>
      [] nt.n = "err" ->
            /\ reason' = [reason EXCEPT ![i] = "transport error"]
            /\ lpc' = [lpc EXCEPT ![i] = "after_loop"]
            /\ pings' = [pings EXCEPT ![i] = 0]
            /\ UNCHANGED <<acked, pubs, emitted, chan>>

\* Receive with the match at 91-103 run before the break of the stop branch
Receive_MatchesThenStops(i) ==
    /\ lpc[i] = "recv"
    /\ \E nt \in Notifications(i) :
          IF nt.n = "eof"
          THEN /\ lpc' = [lpc EXCEPT ![i] = "after_loop"]
               /\ pings' = [pings EXCEPT ![i] = 0]
               /\ UNCHANGED <<stopped, reason, stopQ, acked, pubs, emitted,
                              observedAt, observedIn, chan>>
          ELSE IF stopQ[i] > 0
          THEN /\ stopQ' = [stopQ EXCEPT ![i] = @ - 1]
               /\ Observe(i, "recv")
               /\ stopped' = [stopped EXCEPT ![i] = TRUE]
               /\ Send(i, <<EvStatus(i, "MQTT stop requested", 0)>> \o
                           (IF nt.n = "publish" /\ Mapped[nt.p] # <<>>
                            THEN <<EvMetric(i, nt.p.topic,
                                            Mapped[nt.p][1].kind,
                                            Mapped[nt.p][1].value)>>
                            ELSE <<>>))
               /\ lpc' = [lpc EXCEPT ![i] = "after_loop"]
               /\ pings' = [pings EXCEPT ![i] = 0]
               /\ UNCHANGED <<reason, acked, pubs>>
          ELSE /\ OnNotification(i, nt)
               /\ UNCHANGED <<stopped, stopQ, observedAt, observedIn>>
    /\ UNCHANGED <<backoff, attempt, failedAt, avars, hvars>>

\* Receive without the stop check at 83-90
Receive_NoStopCheck(i) ==
    /\ lpc[i] = "recv"
    /\ \E nt \in Notifications(i) :
          IF nt.n = "eof"
          THEN /\ lpc' = [lpc EXCEPT ![i] = "after_loop"]
               /\ pings' = [pings EXCEPT ![i] = 0]
               /\ UNCHANGED <<stopped, reason, stopQ, acked, pubs, emitted,
                              observedAt, observedIn, chan>>
          ELSE /\ OnNotification(i, nt)
               /\ UNCHANGED <<stopped, stopQ, observedAt, observedIn>>
    /\ UNCHANGED <<backoff, attempt, failedAt, avars, hvars>>

\* mqtt.rs 82-104, one pass of `for notification in connection.iter()`
Receive(i) ==
    /\ lpc[i] = "recv"
    /\ \E nt \in Notifications(i) :
          IF nt.n = "eof"
          THEN \* the iterator ends: the loop is left, no stop check
               /\ lpc' = [lpc EXCEPT ![i] = "after_loop"]
               /\ pings' = [pings EXCEPT ![i] = 0]
               /\ UNCHANGED <<stopped, reason, stopQ, acked, pubs, emitted,
                              observedAt, observedIn, chan>>
          ELSE IF stopQ[i] > 0
          THEN \* 83-90 (the notification itself is dropped)
               /\ stopQ' = [stopQ EXCEPT ![i] = @ - 1]
               /\ Observe(i, "recv")
               /\ stopped' = [stopped EXCEPT ![i] = TRUE]
               /\ Send(i, <<EvStatus(i, "MQTT stop requested", 0)>>)
               /\ lpc' = [lpc EXCEPT ![i] = "after_loop"]
               /\ pings' = [pings EXCEPT ![i] = 0]
               /\ UNCHANGED <<reason, acked, pubs>>
          ELSE /\ OnNotification(i, nt)
               /\ UNCHANGED <<stopped, stopQ, observedAt, observedIn>>
    /\ UNCHANGED <<backoff, attempt, failedAt, avars, hvars>>

\* mqtt.rs 82-97 with no stop request in the channel: the next packet set
\* aside comes as a Publish, after the ConnAck
ReceiveText(i) ==
    /\ lpc[i] = "recv"
    /\ stopQ[i] = 0
    /\ acked[i]
    /\ Len(mapped) < Len(publish)
    /\ LET p == publish[Len(mapped) + 1]
           m == map_publish(p)
       IN  /\ mapped' = Append(mapped, m)
           /\ OnPublish(i, p.topic, m)
    /\ UNCHANGED <<backoff, attempt, stopped, stopQ, observedAt, observedIn,
                   failedAt, apc, joinOn, connected, status, mqtt_handle,
                   mqtt_stop, cfgTls, hasUser, hasPw, nextInst, applied,
                   metrics, dashboard, normalized, svars, tvars, sensor,
                   classified, topic_prefix, subs, publish, drawn, hvars>>

\* NextWait without the reset of lines 114-116
NextWait_NeverResets(i, long) == backoff[i]

\* mqtt.rs 114-118: connect_at.elapsed() >= 60 s is up to the clock
NextWait(i, long) == IF long THEN InitialBackoff ELSE backoff[i]

\* AfterLoop without the send at line 112
AfterLoop_NoDisconnected(i) ==
    /\ lpc[i] = "after_loop"
    /\ IF stopped[i]
       THEN /\ Send(i, <<EvDisconnected(i, "stopped")>>)
            /\ lpc' = [lpc EXCEPT ![i] = "done"]
            /\ UNCHANGED backoff
       ELSE \E long \in BOOLEAN :
            /\ backoff' = [backoff EXCEPT ![i] = NextWait(i, long)]
            /\ Send(i, <<EvStatus(i, "Reconnecting in", NextWait(i, long))>>)
            /\ lpc' = [lpc EXCEPT ![i] = "wait"]
    /\ UNCHANGED <<attempt, stopped, reason, stopQ, acked, pubs, pings,
                   observedAt, observedIn, failedAt, avars, hvars>>

\* AfterLoop without the `if stopped` of lines 106-109
AfterLoop_IgnoresStopped(i) ==
    /\ lpc[i] = "after_loop"
    /\ \E long \in BOOLEAN :
            /\ backoff' = [backoff EXCEPT ![i] = NextWait(i, long)]
            /\ Send(i, <<EvDisconnected(i, IF reason[i] = None
                                           THEN "connection closed"
                                           ELSE reason[i]),
                         EvStatus(i, "Reconnecting in", NextWait(i, long))>>)
            /\ lpc' = [lpc EXCEPT ![i] = "wait"]
    /\ UNCHANGED <<attempt, stopped, reason, stopQ, acked, pubs, pings,
                   observedAt, observedIn, failedAt, avars, hvars>>

\* AfterLoop that sends "connection closed" whatever ended the session
AfterLoop_ReasonDropped(i) ==
    /\ lpc[i] = "after_loop"
    /\ IF stopped[i]
       THEN /\ Send(i, <<EvDisconnected(i, "stopped")>>)
            /\ lpc' = [lpc EXCEPT ![i] = "done"]
            /\ UNCHANGED backoff
       ELSE \E long \in BOOLEAN :
            /\ backoff' = [backoff EXCEPT ![i] = NextWait(i, long)]
            /\ Send(i, <<EvDisconnected(i, "connection closed"),
                         EvStatus(i, "Reconnecting in", NextWait(i, long))>>)
            /\ lpc' = [lpc EXCEPT ![i] = "wait"]
    /\ UNCHANGED <<attempt, stopped, reason, stopQ, acked, pubs, pings,
                   observedAt, observedIn, failedAt, avars, hvars>>

\* AfterLoop that writes the Status before the reset of lines 114-116
AfterLoop_AnnouncesBeforeReset(i) ==
    /\ lpc[i] = "after_loop"
    /\ IF stopped[i]
       THEN /\ Send(i, <<EvDisconnected(i, "stopped")>>)
            /\ lpc' = [lpc EXCEPT ![i] = "done"]
            /\ UNCHANGED backoff
       ELSE \E long \in BOOLEAN :
            /\ backoff' = [backoff EXCEPT ![i] = NextWait(i, long)]
            /\ Send(i, <<EvDisconnected(i, IF reason[i] = None
                                           THEN "connection closed"
                                           ELSE reason[i]),
                         EvStatus(i, "Reconnecting in", backoff[i])>>)
            /\ lpc' = [lpc EXCEPT ![i] = "wait"]
    /\ UNCHANGED <<attempt, stopped, reason, stopQ, acked, pubs, pings,
                   observedAt, observedIn, failedAt, avars, hvars>>

\* AfterLoop that returns on a stop without a Disconnected
AfterLoop_StopReturnsSilently(i) ==
    /\ lpc[i] = "after_loop"
    /\ IF stopped[i]
       THEN /\ lpc' = [lpc EXCEPT ![i] = "done"]
            /\ UNCHANGED <<backoff, emitted, chan>>
       ELSE \E long \in BOOLEAN :
            /\ backoff' = [backoff EXCEPT ![i] = NextWait(i, long)]
            /\ Send(i, <<EvDisconnected(i, IF reason[i] = None
                                           THEN "connection closed"
                                           ELSE reason[i]),
                         EvStatus(i, "Reconnecting in", NextWait(i, long))>>)
            /\ lpc' = [lpc EXCEPT ![i] = "wait"]
    /\ UNCHANGED <<attempt, stopped, reason, stopQ, acked, pubs, pings,
                   observedAt, observedIn, failedAt, avars, hvars>>

\* mqtt.rs 106-122: after the receive loop.  Stopped: Disconnected("stopped")
\* and return.  Otherwise Disconnected(reason), the backoff reset and the
\* Status that announces the wait.
AfterLoop(i) ==
    /\ lpc[i] = "after_loop"
    /\ IF stopped[i]
       THEN /\ Send(i, <<EvDisconnected(i, "stopped")>>)
            /\ lpc' = [lpc EXCEPT ![i] = "done"]
            /\ UNCHANGED backoff
       ELSE \E long \in BOOLEAN :
            /\ backoff' = [backoff EXCEPT ![i] = NextWait(i, long)]
            /\ Send(i, <<EvDisconnected(i, IF reason[i] = None
                                           THEN "connection closed"
                                           ELSE reason[i]),
                         EvStatus(i, "Reconnecting in", NextWait(i, long))>>)
            /\ lpc' = [lpc EXCEPT ![i] = "wait"]
    /\ UNCHANGED <<attempt, stopped, reason, stopQ, acked, pubs, pings,
                   observedAt, observedIn, failedAt, avars, hvars>>

\* NextBackoff without the `.min(..)`
NextBackoff_NoCap(b) == b * BackoffFactor

\* mqtt.rs 130
NextBackoff(b) == Min(b * BackoffFactor, BackoffCap)

\* Wait as a plain sleep(wait): the stop channel is not looked at
Wait_SleepsOut(i) ==
    /\ lpc[i] = "wait"
    /\ backoff' = [backoff EXCEPT ![i] = NextBackoff(@)]
    /\ lpc' = [lpc EXCEPT ![i] = "top"]
    /\ UNCHANGED <<stopQ, observedAt, observedIn, emitted, chan>>
    /\ UNCHANGED <<attempt, stopped, reason, acked, pubs, pings, failedAt,
                   avars, hvars>>

\* mqtt.rs 123-130: stop_rx.recv_timeout(wait).  A message in the channel
\* ends the wait (Status, Disconnected("stopped"), return); otherwise the
\* timeout does, the backoff doubles and the loop starts over.
Wait(i) ==
    /\ lpc[i] = "wait"
    /\ IF stopQ[i] > 0
       THEN /\ stopQ' = [stopQ EXCEPT ![i] = @ - 1]
            /\ Observe(i, "wait")
            /\ Send(i, <<EvStatus(i, "MQTT stop requested", 0),
                         EvDisconnected(i, "stopped")>>)
            /\ lpc' = [lpc EXCEPT ![i] = "done"]
            /\ UNCHANGED backoff
       ELSE /\ backoff' = [backoff EXCEPT ![i] = NextBackoff(@)]
            /\ lpc' = [lpc EXCEPT ![i] = "top"]
            /\ UNCHANGED <<stopQ, observedAt, observedIn, emitted, chan>>
    /\ UNCHANGED <<attempt, stopped, reason, acked, pubs, pings, failedAt,
                   avars, hvars>>

\* ---------------------------------------------------------------- Air1App
\* Metrics::default (app.rs 12-23)
NoMetrics ==
    [pm1 |-> <<>>, pm25 |-> <<>>, pm10 |-> <<>>, tvoc |-> <<>>, co2 |-> <<>>,
     temp |-> <<>>, humidity |-> <<>>, last_topic |-> <<>>,
     last_update |-> <<>>]

\* app.rs 196-205: the slot a kind selects, None for the `_ => continue` arm
Slot(kind) ==
    CASE kind = "pm1" -> "pm1"
      [] kind \in {"pm25", "pm2_5"} -> "pm25"
      [] kind = "pm10" -> "pm10"
      [] kind = "tvoc" -> "tvoc"
      [] kind = "co2" -> "co2"
      [] kind \in {"temp", "temperature"} -> "temp"
      [] kind = "humidity" -> "humidity"
      [] OTHER -> None

\* Instant::now() at app.rs 194: the reading of a monotonic clock, here
\* the number of the event being applied
Now == Len(applied) + 1

\* app.rs 177-180
ApplyConnected ==
    /\ status' = StatusLine("MQTT connected", "", 0)
    /\ connected' = TRUE
    /\ UNCHANGED <<apc, joinOn, mqtt_handle, mqtt_stop, metrics>>

\* ApplyDisconnected that also forgets the readings
ApplyDisconnected_ClearsMetrics(ev) ==
    /\ status' = StatusLine("MQTT disconnected", ev.text, 0)
    /\ connected' = FALSE
    /\ IF mqtt_handle # 0
       THEN /\ joinOn' = mqtt_handle
            /\ mqtt_handle' = 0
            /\ apc' = "pollJoin"
            /\ UNCHANGED mqtt_stop
       ELSE /\ mqtt_stop' = 0
            /\ UNCHANGED <<apc, joinOn, mqtt_handle>>
    /\ metrics' = NoMetrics

\* app.rs 181-188: handle.join() blocks until the thread has returned
ApplyDisconnected(ev) ==
    /\ status' = StatusLine("MQTT disconnected", ev.text, 0)
    /\ connected' = FALSE
    /\ IF mqtt_handle # 0
       THEN /\ joinOn' = mqtt_handle
            /\ mqtt_handle' = 0
            /\ apc' = "pollJoin"
            /\ UNCHANGED mqtt_stop
       ELSE /\ mqtt_stop' = 0
            /\ UNCHANGED <<apc, joinOn, mqtt_handle>>
    /\ UNCHANGED metrics

\* ApplyStatus that takes a status line for the end of the session
ApplyStatus_EndsSession(ev) ==
    /\ status' = StatusLine(ev.text, "", ev.value)
    /\ connected' = FALSE
    /\ UNCHANGED <<apc, joinOn, mqtt_handle, mqtt_stop, metrics>>

\* app.rs 189-191
ApplyStatus(ev) ==
    /\ status' = StatusLine(ev.text, "", ev.value)
    /\ UNCHANGED <<apc, joinOn, connected, mqtt_handle, mqtt_stop, metrics>>

\* ApplyMetric that writes a slot only while it is empty
ApplyMetric_KeepsFirst(ev) ==
    /\ metrics' =
          LET m == [metrics EXCEPT !.last_topic = <<ev.topic>>,
                                   !.last_update = <<Now>>]
          IN  IF Slot(ev.kind) = None \/ metrics[Slot(ev.kind)] # <<>>
              THEN m
              ELSE [m EXCEPT ![Slot(ev.kind)] = <<ev.value>>]
    /\ UNCHANGED <<apc, joinOn, connected, status, mqtt_handle, mqtt_stop>>

\* app.rs 192-206: last_topic and last_update are written first, then the
\* slot is chosen and written
ApplyMetric(ev) ==
    /\ metrics' =
          LET m == [metrics EXCEPT !.last_topic = <<ev.topic>>,
                                   !.last_update = <<Now>>]
          IN  IF Slot(ev.kind) = None
              THEN m
              ELSE [m EXCEPT ![Slot(ev.kind)] = <<ev.value>>]
    /\ UNCHANGED <<apc, joinOn, connected, status, mqtt_handle, mqtt_stop>>

\* app.rs 175-207: one turn of `while let Ok(ev) = self.mqtt_rx.try_recv()`
PollEvent ==
    /\ apc = "poll"
    /\ chan # <<>>
    /\ LET ev == Head(chan)
       IN  /\ chan' = Tail(chan)
           /\ applied' = Append(applied, ev)
           /\ CASE ev.type = "Connected" -> ApplyConnected
                [] ev.type = "Disconnected" -> ApplyDisconnected(ev)
                [] ev.type = "Status" -> ApplyStatus(ev)
                [] ev.type = "Metric" -> ApplyMetric(ev)
    /\ UNCHANGED <<lvars, hvars, cfgTls, hasUser, hasPw, nextInst, dvars>>

\* app.rs 185-187: the join returns, mqtt_stop = None, the drain goes on
PollJoinReturns ==
    /\ apc = "pollJoin"
    /\ lpc[joinOn] = "done"
    /\ mqtt_stop' = 0
    /\ joinOn' = 0
    /\ apc' = "poll"
    /\ UNCHANGED <<lvars, hvars, chan, connected, status, mqtt_handle, cfgTls,
                   hasUser, hasPw, nextInst, applied, metrics, dvars>>

\* app.rs 175: try_recv finds the channel empty, poll_mqtt returns and
\* update() goes on to draw_settings
PollEmpty ==
    /\ apc = "poll"
    /\ chan = <<>>
    /\ apc' = "ui"
    /\ UNCHANGED <<lvars, hvars, chan, joinOn, connected, status, mqtt_handle,
                   mqtt_stop, cfgTls, hasUser, hasPw, nextInst, applied,
                   metrics, dvars>>

\* app.rs 525-527: a frame in which nothing is clicked; the next update()
\* starts with poll_mqtt again
IdleFrame ==
    /\ apc = "ui"
    /\ apc' = "poll"
    /\ UNCHANGED <<lvars, hvars, chan, joinOn, connected, status, mqtt_handle,
                   mqtt_stop, cfgTls, hasUser, hasPw, nextInst, applied,
                   metrics, dvars>>

\* a Start MQTT button that is enabled whether or not a listener runs
StartClick_AlwaysEnabled ==
    /\ apc = "ui"
    /\ IF hasUser /\ ~hasPw
       THEN /\ status' = StatusLine("Password required when username is set",
                                    "", 0)
            /\ UNCHANGED <<lvars, mqtt_handle, mqtt_stop, nextInst>>
       ELSE /\ nextInst <= MaxInst
            /\ status' = StatusLine("Starting MQTT listener...", "", 0)
            /\ lpc' = [lpc EXCEPT ![nextInst] = "top"]
            /\ mqtt_handle' = nextInst
            /\ mqtt_stop' = nextInst
            /\ nextInst' = nextInst + 1
            /\ UNCHANGED <<backoff, attempt, stopped, reason, stopQ, acked,
                           pubs, pings, emitted, observedAt, observedIn,
                           failedAt>>
    /\ apc' = "poll"
    /\ UNCHANGED <<hvars, chan, joinOn, connected, cfgTls, hasUser, hasPw,
                   applied, metrics, dvars>>

\* a Start MQTT button without the password check of lines 485-488
StartClick_NoPasswordCheck ==
    /\ apc = "ui"
    /\ mqtt_handle = 0
    /\ IF FALSE
       THEN /\ status' = StatusLine("Password required when username is set",
                                    "", 0)
            /\ UNCHANGED <<lvars, mqtt_handle, mqtt_stop, nextInst>>
       ELSE /\ nextInst <= MaxInst
            /\ status' = StatusLine("Starting MQTT listener...", "", 0)
            /\ lpc' = [lpc EXCEPT ![nextInst] = "top"]
            /\ mqtt_handle' = nextInst
            /\ mqtt_stop' = nextInst
            /\ nextInst' = nextInst + 1
            /\ UNCHANGED <<backoff, attempt, stopped, reason, stopQ, acked,
                           pubs, pings, emitted, observedAt, observedIn,
                           failedAt>>
    /\ apc' = "poll"
    /\ UNCHANGED <<hvars, chan, joinOn, connected, cfgTls, hasUser, hasPw,
                   applied, metrics, dvars>>

\* app.rs 481-499: the Start MQTT button, enabled while mqtt_handle is None
StartClick ==
    /\ apc = "ui"
    /\ mqtt_handle = 0
    /\ IF hasUser /\ ~hasPw
       THEN /\ status' = StatusLine("Password required when username is set",
                                    "", 0)
            /\ UNCHANGED <<lvars, mqtt_handle, mqtt_stop, nextInst>>
       ELSE /\ nextInst <= MaxInst
            /\ status' = StatusLine("Starting MQTT listener...", "", 0)
            /\ lpc' = [lpc EXCEPT ![nextInst] = "top"]
            /\ mqtt_handle' = nextInst
            /\ mqtt_stop' = nextInst
            /\ nextInst' = nextInst + 1
            /\ UNCHANGED <<backoff, attempt, stopped, reason, stopQ, acked,
                           pubs, pings, emitted, observedAt, observedIn,
                           failedAt>>
    /\ apc' = "poll"
    /\ UNCHANGED <<hvars, chan, joinOn, connected, cfgTls, hasUser, hasPw,
                   applied, metrics, dvars>>

\* app.rs 500-505 and 211-218: the Stop MQTT button, enabled while
\* mqtt_handle is Some; stop_mqtt sends the stop message and joins
StopClick ==
    /\ apc = "ui"
    /\ mqtt_handle # 0
    /\ IF mqtt_stop # 0
       THEN stopQ' = [stopQ EXCEPT ![mqtt_stop] = @ + 1]
       ELSE UNCHANGED stopQ
    /\ mqtt_stop' = 0
    /\ joinOn' = mqtt_handle
    /\ mqtt_handle' = 0
    /\ apc' = "stopJoin"
    /\ UNCHANGED <<lpc, backoff, attempt, stopped, reason, acked, pubs, pings,
                   emitted, observedAt, observedIn, failedAt, chan, connected,
                   status, cfgTls, hasUser, hasPw, nextInst, applied,
                   metrics, dvars, hvars>>

\* app.rs 217-220: the join returns
StopJoinReturns ==
    /\ apc = "stopJoin"
    /\ lpc[joinOn] = "done"
    /\ connected' = FALSE
    /\ status' = StatusLine("MQTT stopped", "", 0)
    /\ joinOn' = 0
    /\ apc' = "poll"
    /\ UNCHANGED <<lvars, hvars, chan, mqtt_handle, mqtt_stop, cfgTls, hasUser,
                   hasPw, nextInst, applied, metrics, dvars>>

\* availability with the limits left out of their ranges
availability_ExclusiveLimits(conn, last_update, elapsed) ==
    IF ~conn THEN "offline"
    ELSE IF last_update # <<>>
    THEN LET age == elapsed \div 2
         IN  IF age < 15 THEN "fresh"
             ELSE IF age < 60 THEN "stale"
             ELSE "stalled"
    ELSE "no data"

\* app.rs 565-578: the match on (self.connected, self.metrics.last_update).
\* `elapsed` is ts.elapsed(), a Duration, in half seconds; as_secs() is its
\* whole seconds
availability(conn, last_update, elapsed) ==
    IF ~conn THEN "offline"
    ELSE IF last_update # <<>>
    THEN LET age == elapsed \div 2
         IN  IF age <= 15 THEN "fresh"
             ELSE IF age <= 60 THEN "stale"
             ELSE "stalled"
    ELSE "no data"

\* app.rs 520-600: update() has polled and draws a frame, some time after
\* the last reading
Draw ==
    /\ apc = "ui"
    /\ drawn = <<>>
    /\ \E elapsed \in 0..MaxElapsed :
          /\ metrics.last_update = <<>> => elapsed = 0
          /\ drawn' = <<[connected |-> connected,
                         last_update |-> metrics.last_update,
                         elapsed |-> elapsed,
                         label |-> availability(connected,
                                                metrics.last_update,
                                                elapsed)]>>
    /\ UNCHANGED <<lvars, hvars, chan, apc, joinOn, connected, status,
                   mqtt_handle, mqtt_stop, cfgTls, hasUser, hasPw, nextInst,
                   applied, metrics, dashboard, normalized, svars, tvars,
                   sensor, classified, topic_prefix, subs, publish, mapped>>

\* ------------------------------------------------------------------ config
\* GaugeConfig::new
GaugeConfig(id) == [id |-> id, enabled |-> TRUE]

\* default_gauges_for with a gauge for the sections it does not know
default_gauges_for_Generic(section_id) ==
    CASE section_id = "air_quality" ->
            <<GaugeConfig("pm25"), GaugeConfig("pm10"), GaugeConfig("pm1")>>
      [] section_id = "gas" -> <<GaugeConfig("co2"), GaugeConfig("tvoc")>>
      [] section_id = "environment" ->
            <<GaugeConfig("temperature"), GaugeConfig("humidity")>>
      [] section_id = "overview" -> <<>>
      [] OTHER -> <<GaugeConfig("value")>>

\* config.rs 91-105
default_gauges_for(section_id) ==
    CASE section_id = "air_quality" ->
            <<GaugeConfig("pm25"), GaugeConfig("pm10"), GaugeConfig("pm1")>>
      [] section_id = "gas" -> <<GaugeConfig("co2"), GaugeConfig("tvoc")>>
      [] section_id = "environment" ->
            <<GaugeConfig("temperature"), GaugeConfig("humidity")>>
      [] OTHER -> <<>>

\* DashboardSectionConfig::new
DashboardSectionConfig(id) ==
    [id |-> id, enabled |-> TRUE, gauges |-> default_gauges_for(id)]

default_sections ==
    <<DashboardSectionConfig("overview"),
      DashboardSectionConfig("air_quality"),
      DashboardSectionConfig("gas"),
      DashboardSectionConfig("environment")>>

\* a retain that keeps the last item of every id
RECURSIVE Retain_KeepsLast(_, _)
Retain_KeepsLast(items, seen) ==
    IF items = <<>>
    THEN <<>>
    ELSE IF \E k \in 2..Len(items) : items[k].id = Head(items).id
    THEN Retain_KeepsLast(Tail(items), seen)
    ELSE <<Head(items)>> \o Retain_KeepsLast(Tail(items), seen)

\* items.retain(|x| seen.insert(x.id.clone())): insert is true for an id
\* not seen before, so the first item of every id stays
RECURSIVE Retain(_, _)
Retain(items, seen) ==
    IF items = <<>>
    THEN <<>>
    ELSE IF Head(items).id \in seen
    THEN Retain(Tail(items), seen)
    ELSE <<Head(items)>> \o Retain(Tail(items), seen \cup {Head(items).id})

\* `seen` after the retain: the ids of the items
Seen(items) == {items[k].id : k \in DOMAIN items}

\* PushMissing that pushes every default
PushMissing_All(items, defaults, seen) == items \o defaults

\* for x in defaults { if !seen.contains(&x.id) { items.push(x) } }
PushMissing(items, defaults, seen) ==
    items \o SelectSeq(defaults, LAMBDA x : x.id \notin seen)

\* DashboardSectionConfig::normalize without the retain
DashboardSectionConfig_normalize_NoRetain(section) ==
    IF section.gauges = <<>>
    THEN [section EXCEPT !.gauges = default_gauges_for(section.id)]
    ELSE [section EXCEPT !.gauges =
            PushMissing(@, default_gauges_for(section.id), Seen(@))]

\* DashboardSectionConfig::normalize
DashboardSectionConfig_normalize(section) ==
    IF section.gauges = <<>>
    THEN [section EXCEPT !.gauges = default_gauges_for(section.id)]
    ELSE [section EXCEPT !.gauges =
            PushMissing(Retain(@, {}), default_gauges_for(section.id),
                        Seen(@))]

\* for section in &mut sections { section.normalize() }
NormalizeEach(sections) ==
    [k \in DOMAIN sections |-> DashboardSectionConfig_normalize(sections[k])]

\* DashboardConfig::normalize
DashboardConfig_normalize(sections) ==
    IF sections = <<>>
    THEN default_sections
    ELSE NormalizeEach(
             PushMissing(NormalizeEach(Retain(sections, {})),
                         default_sections, Seen(sections)))

\* The section and gauge tables a configuration file may hold: ids with
\* built-in defaults and ids without, switched on or off
SectionIds == {"gas", "custom"}

GaugeIds == {"co2", "x"}

Gauges == [id : GaugeIds, enabled : BOOLEAN]

EmptySections == [id : SectionIds, enabled : BOOLEAN, gauges : {<<>>}]

\* the configurations of at most n sections and gauges together
RECURSIVE Dashboards(_)
Dashboards(n) ==
    IF n = 0
    THEN {<<>>}
    ELSE LET fewer == Dashboards(n - 1)
         IN  fewer
             \cup {Append(d, s) : d \in fewer, s \in EmptySections}
             \cup {[d EXCEPT ![Len(d)].gauges = Append(@, g)] :
                     d \in fewer \ {<<>>}, g \in Gauges}

\* config.rs 227: cfg.dashboard.normalize(), on the configuration just
\* parsed or on one that was saved and is loaded again
Normalize ==
    /\ Len(normalized) < MaxPasses
    /\ normalized' = Append(normalized, dashboard)
    /\ dashboard' = DashboardConfig_normalize(dashboard)
    /\ UNCHANGED <<lvars, hvars, chan, apc, joinOn, connected, status,
                   mqtt_handle, mqtt_stop, cfgTls, hasUser, hasPw, nextInst,
                   applied, metrics, svars, tvars, pvars>>

\* ----------------------------------------------------------------- secrets
\* The platform keyring as the keyring crate presents it: an entry holds
\* the secret last written to it until it is deleted, a read or a delete of
\* an entry that does not exist answers NoEntry, and any call can fail for
\* a reason of the platform (`fault`: no keyring service, a locked
\* keyring, Entry::new failing).
Entry_get_password(fault) ==
    IF fault THEN Err("platform")
    ELSE IF keyring = <<>> THEN Err("NoEntry") ELSE Ok(keyring[1])

\* secrets.rs 23-36: Ok(Some(secret)), Ok(None) for NoEntry, else the error
load_password(fault) ==
    LET got == Entry_get_password(fault)
    IN  IF got.ok THEN Ok(<<got.value>>)
        ELSE IF got.error = "NoEntry" THEN Ok(<<>>)
        ELSE Err("failed to read password from keyring")

\* secrets.rs 38-44: Entry::set_password
save_password(secret, fault) ==
    IF fault
    THEN /\ UNCHANGED keyring
         /\ secretLog' = Append(secretLog,
                [op |-> "save", arg |-> secret, fault |-> fault,
                 result |-> Err("failed to write password to keyring")])
    ELSE /\ keyring' = <<secret>>
         /\ secretLog' = Append(secretLog,
                [op |-> "save", arg |-> secret, fault |-> fault,
                 result |-> Ok(<<>>)])

\* Entry::delete_credential
Entry_delete_credential(fault) ==
    IF fault THEN Err("platform")
    ELSE IF keyring = <<>> THEN Err("NoEntry") ELSE Ok(<<>>)

\* delete_password that passes NoEntry on as an error
delete_password_Strict(fault) ==
    LET res == Entry_delete_credential(fault)
    IN  /\ keyring' = IF fault THEN keyring ELSE <<>>
        /\ secretLog' = Append(secretLog,
               [op |-> "delete", arg |-> "", fault |-> fault,
                result |-> IF res.ok THEN Ok(<<>>)
                           ELSE Err("failed to delete password from keyring")])

\* secrets.rs 46-59: Ok(()) also when there was no entry
delete_password(fault) ==
    LET res == Entry_delete_credential(fault)
    IN  /\ keyring' = IF fault THEN keyring ELSE <<>>
        /\ secretLog' = Append(secretLog,
               [op |-> "delete", arg |-> "", fault |-> fault,
                result |-> IF res.ok \/ res.error = "NoEntry" THEN Ok(<<>>)
                           ELSE Err("failed to delete password from keyring")])

\* the secrets the calls below write
Secrets == {"hunter2", "test-secret"}

\* secrets.rs 67-109: the three functions called one after the other, in any
\* order, on a keyring that may or may not hold an entry
SavePassword ==
    /\ Len(secretLog) < MaxCalls
    /\ \E secret \in Secrets, fault \in BOOLEAN : save_password(secret, fault)
    /\ UNCHANGED <<lvars, hvars, chan, apc, joinOn, connected, status,
                   mqtt_handle, mqtt_stop, cfgTls, hasUser, hasPw, nextInst,
                   applied, metrics, dashboard, normalized, file, loaded,
                   cfgMqtt, keyring_unavailable, password, tvars, pvars>>

LoadPassword ==
    /\ Len(secretLog) < MaxCalls
    /\ \E fault \in BOOLEAN :
          secretLog' = Append(secretLog,
              [op |-> "load", arg |-> "", fault |-> fault,
               result |-> load_password(fault)])
    /\ UNCHANGED <<lvars, hvars, chan, apc, joinOn, connected, status,
                   mqtt_handle, mqtt_stop, cfgTls, hasUser, hasPw, nextInst,
                   applied, metrics, dashboard, normalized, file, loaded,
                   cfgMqtt, keyring_unavailable, keyring, password, tvars,
                   pvars>>

DeletePassword ==
    /\ Len(secretLog) < MaxCalls
    /\ \E fault \in BOOLEAN : delete_password(fault)
    /\ UNCHANGED <<lvars, hvars, chan, apc, joinOn, connected, status,
                   mqtt_handle, mqtt_stop, cfgTls, hasUser, hasPw, nextInst,
                   applied, metrics, dashboard, normalized, file, loaded,
                   cfgMqtt, keyring_unavailable, password, tvars, pvars>>

\* ---------------------------------------------------------- load_or_default
\* config.rs 33-48: MqttConfig::default()
MqttConfig_default ==
    [host |-> <<"l", "o", "c", "a", "l", "h", "o", "s", "t">>, port |-> 1883,
     tls |-> FALSE, username |-> FALSE, qos |-> 0, keepalive_secs |-> 30,
     remember_password |-> FALSE]

\* AppConfig::default()
AppConfig_default ==
    [mqtt |-> MqttConfig_default, dashboard |-> default_sections]

\* The [mqtt] tables a configuration file can hold: port and keepalive_secs
\* are u16 and qos is u8, and a number outside its type does not parse at
\* all.  username stands for username.is_some().
MqttTables ==
    [host : {<<>>, <<" ">>, <<" ", "\t">>, <<"b">>, <<" ", "b", " ">>},
     port : {0, 1883, 65535},
     tls : {TRUE},
     username : BOOLEAN,
     qos : {0, 2, 3},
     keepalive_secs : {0, 30},
     remember_password : BOOLEAN]

\* there is no configuration file
NoFile == [kind |-> "missing"]

\* What init can find: no configuration directory at all, no file, a file
\* that cannot be read, a file that is not TOML of the expected shape, or a
\* file that parses
Files ==
    {[kind |-> k] : k \in {"no_config_dir", "missing", "unreadable",
                           "garbled"}}
    \cup [kind : {"parsed"}, mqtt : MqttTables,
          dashboard : {default_sections, <<>>}]

\* load_or_default that brings a QoS above 2 down to 2
load_or_default_ClampsQos(f) ==
    CASE f.kind = "missing" -> Ok(AppConfig_default)
      [] f.kind = "unreadable" -> Err("failed to read config")
      [] f.kind = "garbled" -> Err("failed to parse config")
      [] f.kind = "parsed" ->
            LET cfg == [mqtt |-> f.mqtt,
                        dashboard |-> DashboardConfig_normalize(f.dashboard)]
            IN  IF trim(cfg.mqtt.host) = <<>>
                THEN Err("MQTT host must be non-empty")
                ELSE IF ~(cfg.mqtt.port \in 1..65535)
                THEN Err("MQTT port must be between 1 and 65535")
                ELSE IF cfg.mqtt.keepalive_secs = 0
                THEN Err("MQTT keepalive must be greater than 0 seconds")
                ELSE Ok([cfg EXCEPT !.mqtt.qos = Min(@, 2)])

\* config.rs 221-246
load_or_default(f) ==
    CASE f.kind = "missing" -> Ok(AppConfig_default)
      [] f.kind = "unreadable" -> Err("failed to read config")
      [] f.kind = "garbled" -> Err("failed to parse config")
      [] f.kind = "parsed" ->
            LET cfg == [mqtt |-> f.mqtt,
                        dashboard |-> DashboardConfig_normalize(f.dashboard)]
            IN  IF trim(cfg.mqtt.host) = <<>>
                THEN Err("MQTT host must be non-empty")
                ELSE IF ~(cfg.mqtt.port \in 1..65535)
                THEN Err("MQTT port must be between 1 and 65535")
                ELSE IF cfg.mqtt.qos > 2
                THEN Err("MQTT QoS must be between 0 and 2")
                ELSE IF cfg.mqtt.keepalive_secs = 0
                THEN Err("MQTT keepalive must be greater than 0 seconds")
                ELSE Ok(cfg)

\* the fields of cfg.mqtt that cfgMqtt holds (cfgTls and hasUser hold the
\* other two)
MqttFields(m) ==
    [host |-> m.host, port |-> m.port, qos |-> m.qos,
     keepalive_secs |-> m.keepalive_secs,
     remember_password |-> m.remember_password]

\* app.rs 83-138: Air1App::init
AppInit ==
    /\ loaded = <<>>
    /\ IF file.kind = "no_config_dir"
       THEN /\ loaded' = <<Err("config path error")>>
            /\ status' = StatusLine("Config path error", "", 0)
            /\ keyring_unavailable' = TRUE
            /\ cfgMqtt' = MqttFields(MqttConfig_default)
            /\ cfgTls' = MqttConfig_default.tls
            /\ hasUser' = MqttConfig_default.username
            /\ hasPw' = FALSE
            /\ password' = <<>>
            /\ dashboard' = default_sections
            /\ UNCHANGED <<normalized, secretLog>>
       ELSE LET res == load_or_default(file)
                cfg == IF res.ok THEN res.value ELSE AppConfig_default
            IN  /\ loaded' = <<res>>
                /\ status' = StatusLine("", "", 0)
                /\ cfgMqtt' = MqttFields(cfg.mqtt)
                /\ cfgTls' = cfg.mqtt.tls
                /\ hasUser' = cfg.mqtt.username
                /\ dashboard' = cfg.dashboard
                /\ normalized' = IF file.kind = "parsed"
                                 THEN Append(normalized, file.dashboard)
                                 ELSE normalized
                /\ IF cfg.mqtt.remember_password
                   THEN \E fault \in BOOLEAN :
                          LET pw == load_password(fault)
                          IN  /\ secretLog' = Append(secretLog,
                                    [op |-> "load", arg |-> "",
                                     fault |-> fault, result |-> pw])
                              /\ keyring_unavailable' = ~pw.ok
                              /\ password' = IF pw.ok THEN pw.value ELSE <<>>
                              /\ hasPw' = (pw.ok /\ pw.value # <<>>)
                   ELSE /\ hasPw' = FALSE
                        /\ password' = <<>>
                        /\ keyring_unavailable' = FALSE
                        /\ UNCHANGED secretLog
    /\ UNCHANGED <<lvars, hvars, chan, apc, joinOn, connected, mqtt_handle,
                   mqtt_stop, nextInst, applied, metrics, file, keyring,
                   tvars, pvars>>

\* --------------------------------------------------------------- settings
\* cfg.mqtt as a whole
CfgMqtt ==
    [host |-> cfgMqtt.host, port |-> cfgMqtt.port, tls |-> cfgTls,
     username |-> hasUser, qos |-> cfgMqtt.qos,
     keepalive_secs |-> cfgMqtt.keepalive_secs,
     remember_password |-> cfgMqtt.remember_password]

\* app.rs 140-162 with cfg.mqtt = mqtt and password = pw.  config::save
\* (config.rs 249-278) writes the file, fails before it has touched it, or
\* fails after File::create has emptied it.
save_all(mqtt, pw) ==
    \E disk \in {"written", "untouched", "emptied"} :
        IF disk # "written"
        THEN /\ status' = StatusLine("Save failed", "", 0)
             /\ file' = IF disk = "emptied" THEN [kind |-> "garbled"] ELSE file
             /\ UNCHANGED <<keyring, secretLog>>
        ELSE /\ file' = [kind |-> "parsed", mqtt |-> mqtt,
                         dashboard |-> dashboard]
             /\ IF mqtt.remember_password /\ pw = <<>>
                THEN UNCHANGED <<keyring, secretLog>>
                ELSE /\ Len(secretLog) < MaxCalls
                     /\ \E fault \in BOOLEAN :
                           IF mqtt.remember_password
                           THEN save_password(pw[1], fault)
                           ELSE delete_password(fault)
             /\ status' =
                   IF secretLog' = secretLog \/ Last(secretLog').result.ok
                   THEN StatusLine("Saved settings", "", 0)
                   ELSE StatusLine("Save failed", "", 0)

\* app.rs 436-448: the "Remember password" checkbox is clicked; the
\* settings are saved unless it was checked with no password entered
RememberClick ==
    /\ apc = "ui"
    /\ LET remember == ~cfgMqtt.remember_password
       IN  /\ cfgMqtt' = [cfgMqtt EXCEPT !.remember_password = remember]
           /\ IF remember /\ password = <<>>
              THEN /\ status' = StatusLine("Enter a password to store", "", 0)
                   /\ UNCHANGED <<file, keyring, secretLog>>
              ELSE save_all([CfgMqtt EXCEPT !.remember_password = remember],
                            password)
    /\ apc' = "poll"
    /\ UNCHANGED <<lvars, hvars, chan, joinOn, connected, mqtt_handle,
                   mqtt_stop, cfgTls, hasUser, hasPw, nextInst, applied,
                   metrics, dashboard, normalized, loaded,
                   keyring_unavailable, password, tvars, pvars>>

\* app.rs 458-460: the Save settings button
SaveClick ==
    /\ apc = "ui"
    /\ save_all(CfgMqtt, password)
    /\ apc' = "poll"
    /\ UNCHANGED <<lvars, hvars, chan, joinOn, connected, mqtt_handle,
                   mqtt_stop, cfgTls, hasUser, hasPw, nextInst, applied,
                   metrics, dashboard, normalized, loaded, cfgMqtt,
                   keyring_unavailable, password, tvars, pvars>>

\* forget_password that forgets in the application whatever the store says
forget_password_ForgetsAnyway(fault) ==
    /\ delete_password(fault)
    /\ password' = <<>>
    /\ hasPw' = FALSE
    /\ cfgMqtt' = [cfgMqtt EXCEPT !.remember_password = FALSE]
    /\ status' = IF Last(secretLog').result.ok
                 THEN StatusLine("Removed saved password", "", 0)
                 ELSE StatusLine("Could not remove password", "", 0)

\* app.rs 223-234
forget_password(fault) ==
    /\ delete_password(fault)
    /\ IF Last(secretLog').result.ok
       THEN /\ password' = <<>>
            /\ hasPw' = FALSE
            /\ cfgMqtt' = [cfgMqtt EXCEPT !.remember_password = FALSE]
            /\ status' = StatusLine("Removed saved password", "", 0)
       ELSE /\ status' = StatusLine("Could not remove password", "", 0)
            /\ UNCHANGED <<password, hasPw, cfgMqtt>>

\* app.rs 478-480: the Forget saved password button
ForgetClick ==
    /\ apc = "ui"
    /\ Len(secretLog) < MaxCalls
    /\ \E fault \in BOOLEAN : forget_password(fault)
    /\ apc' = "poll"
    /\ UNCHANGED <<lvars, hvars, chan, joinOn, connected, mqtt_handle,
                   mqtt_stop, cfgTls, hasUser, nextInst, applied, metrics,
                   dashboard, normalized, file, loaded, keyring_unavailable,
                   tvars, pvars>>

\* app.rs 384-394: the Username field is edited; a name that trims to
\* nothing is None
EditUsername ==
    /\ apc = "ui"
    /\ hasUser' = ~hasUser
    /\ apc' = "poll"
    /\ UNCHANGED <<lvars, hvars, chan, joinOn, connected, status, mqtt_handle,
                   mqtt_stop, cfgTls, hasPw, nextInst, applied, metrics,
                   dashboard, normalized, svars, tvars, pvars>>

\* app.rs 396-413: the Password field is edited; an empty field is None,
\* and the settings are saved when remember_password is on
EditPassword ==
    /\ apc = "ui"
    /\ \E pw \in ({<<>>} \cup {<<s>> : s \in Secrets}) \ {password} :
          /\ password' = pw
          /\ hasPw' = (pw # <<>>)
          /\ IF cfgMqtt.remember_password
             THEN save_all(CfgMqtt, pw)
             ELSE UNCHANGED <<status, file, keyring, secretLog>>
    /\ apc' = "poll"
    /\ UNCHANGED <<lvars, hvars, chan, joinOn, connected, mqtt_handle,
                   mqtt_stop, cfgTls, hasUser, nextInst, applied, metrics,
                   dashboard, normalized, loaded, cfgMqtt,
                   keyring_unavailable, tvars, pvars>>

\* ---------------------------------------------------------- test_connection
\* no test thread
NoTest ==
    [pc |-> "idle", user |-> FALSE, pw |-> <<>>, opened |-> FALSE,
     seen |-> <<>>]

\* app.rs 461-477: the Test connection button, enabled while no test is
\* under way; the thread gets clones of cfg and password
TestClick ==
    /\ apc = "ui"
    /\ ~testing
    /\ Len(tested) < MaxTests
    /\ status' = StatusLine("Testing connection...", "", 0)
    /\ testing' = TRUE
    /\ tthread' = [NoTest EXCEPT !.pc = "probe", !.user = hasUser,
                                 !.pw = password]
    /\ apc' = "poll"
    /\ UNCHANGED <<lvars, hvars, chan, joinOn, connected, mqtt_handle,
                   mqtt_stop, cfgTls, hasUser, hasPw, nextInst, applied,
                   metrics, dashboard, normalized, svars, test_rx, tested,
                   pvars>>

\* app.rs 471-475: test_connection has returned `result`; the thread sends
\* it into test_tx and ends
TestReturns(result) ==
    /\ test_rx' = Append(test_rx, result)
    /\ tested' = Append(tested, [user |-> tthread.user, pw |-> tthread.pw,
                                 opened |-> tthread'.opened,
                                 seen |-> tthread'.seen, result |-> result])

\* mqtt.rs 21 and 252-262: socket_check resolves the host and connects a
\* TCP socket within 3 s, or fails
TestProbe ==
    /\ tthread.pc = "probe"
    /\ \E reachable \in BOOLEAN :
          IF reachable
          THEN /\ tthread' = [tthread EXCEPT !.pc = "build"]
               /\ UNCHANGED <<test_rx, tested>>
          ELSE /\ tthread' = [tthread EXCEPT !.pc = "idle"]
               /\ TestReturns(Err("socket check failed"))
    /\ UNCHANGED <<lvars, hvars, chan, apc, joinOn, connected, status,
                   mqtt_handle, mqtt_stop, cfgTls, hasUser, hasPw, nextInst,
                   applied, metrics, dashboard, normalized, svars, testing,
                   pvars>>

\* mqtt.rs 23-28: build_options, Client::new and the subscribe request;
\* nothing is on the wire yet
TestBuild ==
    /\ tthread.pc = "build"
    /\ \E r \in build_options :
          IF r = "ok"
          THEN /\ tthread' = [tthread EXCEPT !.pc = "iter"]
               /\ UNCHANGED <<test_rx, tested>>
          ELSE /\ tthread' = [tthread EXCEPT !.pc = "idle"]
               /\ TestReturns(Err("tls_config failed"))
    /\ UNCHANGED <<lvars, hvars, chan, apc, joinOn, connected, status,
                   mqtt_handle, mqtt_stop, cfgTls, hasUser, hasPw, nextInst,
                   applied, metrics, dashboard, normalized, svars, testing,
                   pvars>>

\* What connection.iter() can yield to test_connection: the ConnAck, some
\* other packet, a transport error, or the end of the stream
TestNotifications ==
    {"connack", "err", "eof"}
    \cup (IF Len(tthread.seen) < MaxOther THEN {"other"} ELSE {})

\* TestIterate that gives up only on the second transport error
TestIterate_RetriesOnce ==
    /\ tthread.pc = "iter"
    /\ \E n \in TestNotifications, late \in BOOLEAN :
          LET t == [tthread EXCEPT !.opened = TRUE,
                                   !.seen = Append(@, [n |-> n,
                                                       late |-> late])]
              retry == n = "err" /\ \A k \in DOMAIN tthread.seen :
                                        tthread.seen[k].n # "err"
              res == IF n = "eof" THEN Err("MQTT test ended without ConnAck")
                     ELSE IF late THEN Err("MQTT test timed out")
                     ELSE IF n = "connack" THEN Ok(<<>>)
                     ELSE Err("MQTT error during test")
          IN  /\ n = "eof" => ~late
              /\ IF (n = "other" \/ retry) /\ ~late
                 THEN /\ tthread' = t
                      /\ UNCHANGED <<test_rx, tested>>
                 ELSE /\ tthread' = [t EXCEPT !.pc = "idle"]
                      /\ TestReturns(res)
    /\ UNCHANGED <<lvars, hvars, chan, apc, joinOn, connected, status,
                   mqtt_handle, mqtt_stop, cfgTls, hasUser, hasPw, nextInst,
                   applied, metrics, dashboard, normalized, svars, testing,
                   pvars>>

\* mqtt.rs 30-44: one turn of `for notification in connection.iter()`.  The
\* first turn opens the connection.  `late` is start.elapsed() > 5 s, looked
\* at only when a notification has come; when the stream ends the loop is
\* left without looking.
TestIterate ==
    /\ tthread.pc = "iter"
    /\ \E n \in TestNotifications, late \in BOOLEAN :
          LET t == [tthread EXCEPT !.opened = TRUE,
                                   !.seen = Append(@, [n |-> n,
                                                       late |-> late])]
              res == IF n = "eof" THEN Err("MQTT test ended without ConnAck")
                     ELSE IF late THEN Err("MQTT test timed out")
                     ELSE IF n = "connack" THEN Ok(<<>>)
                     ELSE Err("MQTT error during test")
          IN  /\ n = "eof" => ~late
              /\ IF n = "other" /\ ~late
                 THEN /\ tthread' = t
                      /\ UNCHANGED <<test_rx, tested>>
                 ELSE /\ tthread' = [t EXCEPT !.pc = "idle"]
                      /\ TestReturns(res)
    /\ UNCHANGED <<lvars, hvars, chan, apc, joinOn, connected, status,
                   mqtt_handle, mqtt_stop, cfgTls, hasUser, hasPw, nextInst,
                   applied, metrics, dashboard, normalized, svars, testing,
                   pvars>>

\* app.rs 164-172: one turn of `while let Ok(msg) = self.test_rx.try_recv()`.
\* update() calls poll_tests before poll_mqtt; here the two drains may
\* interleave within a frame.
PollTest ==
    /\ apc = "poll"
    /\ test_rx # <<>>
    /\ test_rx' = Tail(test_rx)
    /\ testing' = FALSE
    /\ status' = IF Head(test_rx).ok
                 THEN StatusLine("MQTT test succeeded", "", 0)
                 ELSE StatusLine("MQTT test failed", Head(test_rx).error, 0)
    /\ UNCHANGED <<lvars, hvars, chan, apc, joinOn, connected, mqtt_handle,
                   mqtt_stop, cfgTls, hasUser, hasPw, nextInst, applied,
                   metrics, dashboard, normalized, svars, tthread, tested,
                   pvars>>

\* ------------------------------------------------------------ subscriptions
\* "homeassistant"
Homeassistant ==
    <<"h", "o", "m", "e", "a", "s", "s", "i", "s", "t", "a", "n", "t">>

\* mqtt.rs 153-168
subscriptions(prefix) ==
    LET raw == trim(IF prefix = <<>> THEN Homeassistant ELSE prefix[1])
        base == trim_end_matches(
                    trim_end_matches(
                        trim_end_matches(raw, <<"/", "#">>),
                        <<"#">>),
                    <<"/">>)
    IN  <<base \o <<"/", "#">>>>

\* the prefixes of up to n characters over a letter, the separator, the
\* wildcard and a blank
RECURSIVE Prefixes(_)
Prefixes(n) ==
    IF n = 0 THEN {<<>>}
    ELSE LET shorter == Prefixes(n - 1)
         IN  shorter \cup {Append(p, c) : p \in shorter,
                                          c \in {"a", "/", "#", " "}}

\* mqtt.rs 70: let subs = subscriptions(&cfg)
Subscribe ==
    /\ subs = <<>>
    /\ subs' = subscriptions(topic_prefix)
    /\ UNCHANGED <<lvars, hvars, chan, apc, joinOn, connected, status,
                   mqtt_handle, mqtt_stop, cfgTls, hasUser, hasPw, nextInst,
                   applied, metrics, dashboard, normalized, svars, tvars,
                   sensor, classified, topic_prefix, publish, mapped,
                   drawn>>

\* ---------------------------------------------------------- map_sensor_kind
\* pieces of sensor names: the literals the rules look for, some of them in
\* capitals, and pieces no rule looks for
NameTokens ==
    {Pattern.pm_1mm, Pattern.pm_2_5mm, Pattern.pm_10mm, Pattern.pm_1_to_2_5,
     Pattern.pm_0_3_to_1, Pattern.pm_2_5_to_4, Pattern.pm_4_to_10,
     Pattern.voc, Pattern.co2, Pattern.temp, Pattern.hum,
     <<"C", "O", "2">>, <<"T", "e", "m", "p">>,
     <<"u", "p", "t", "i", "m", "e">>, <<"_">>, <<"x">>}

\* the names made of up to n such pieces
RECURSIVE SensorNames(_)
SensorNames(n) ==
    IF n = 0 THEN {<<>>}
    ELSE LET shorter == SensorNames(n - 1)
         IN  shorter \cup {a \o t : a \in shorter, t \in NameTokens}

\* mqtt.rs 214: map_sensor_kind(name)
Classify ==
    /\ classified = <<>>
    /\ classified' = <<map_sensor_kind(sensor)>>
    /\ UNCHANGED <<lvars, hvars, chan, apc, joinOn, connected, status,
                   mqtt_handle, mqtt_stop, cfgTls, hasUser, hasPw, nextInst,
                   applied, metrics, dashboard, normalized, svars, tvars,
                   sensor, topic_prefix, subs, publish, mapped, drawn>>

\* ------------------------------------------------------------------ system
\* Air1App::init / Default: no thread, empty channel, not connected.  The
\* configuration has TLS switched on and no username; the runs of a
\* configuration without TLS are the runs below in which build_options
\* never fails.
InitRest ==
    /\ lpc = [i \in Inst |-> "unborn"]
    /\ backoff = [i \in Inst |-> InitialBackoff]
    /\ attempt = [i \in Inst |-> 0]
    /\ stopped = [i \in Inst |-> FALSE]
    /\ reason = [i \in Inst |-> None]
    /\ stopQ = [i \in Inst |-> 0]
    /\ acked = [i \in Inst |-> FALSE]
    /\ pubs = [i \in Inst |-> 0]
    /\ emitted = [i \in Inst |-> <<>>]
    /\ pings = [i \in Inst |-> 0]
    /\ observedAt = [i \in Inst |-> -1]
    /\ observedIn = [i \in Inst |-> ""]
    /\ failedAt = [i \in Inst |-> -1]
    /\ chan = <<>>
    /\ apc = "poll"
    /\ joinOn = 0
    /\ connected = FALSE
    /\ status = StatusLine("", "", 0)
    /\ mqtt_handle = 0
    /\ mqtt_stop = 0
    /\ cfgTls = TRUE
    /\ hasUser = FALSE
    /\ hasPw = FALSE
    /\ nextInst = 1
    /\ applied = <<>>
    /\ metrics = NoMetrics
    /\ waits = [i \in Inst |-> <<>>]
    /\ delivered = [i \in Inst |-> <<>>]

\* no packet is set aside for delivery and no frame is recorded
InitPublish ==
    /\ publish = <<>>
    /\ mapped = <<>>
    /\ drawn = <<>>

\* neither function has been called; the topic prefix is not set
InitPure ==
    /\ sensor = <<>>
    /\ classified = <<>>
    /\ topic_prefix = <<>>
    /\ subs = <<>>
    /\ InitPublish

\* no test has been started
InitTest ==
    /\ testing = FALSE
    /\ test_rx = <<>>
    /\ tthread = NoTest
    /\ tested = <<>>

\* init has run and has found no configuration file and no keyring entry
InitStartup ==
    /\ file = NoFile
    /\ loaded = <<Ok(AppConfig_default)>>
    /\ cfgMqtt = MqttFields(MqttConfig_default)
    /\ keyring_unavailable = FALSE
    /\ keyring = <<>>
    /\ secretLog = <<>>
    /\ password = <<>>
    /\ InitTest

\* load_or_default finds no file: AppConfig::default()
Init ==
    /\ InitRest
    /\ dashboard = default_sections
    /\ normalized = <<>>
    /\ InitStartup
    /\ InitPure

Listener(i) ==
    \/ LoopTop(i)
    \/ Connect(i)
    \/ Receive(i)
    \/ AfterLoop(i)
    \/ Wait(i)

App ==
    \/ PollEvent
    \/ PollJoinReturns
    \/ PollEmpty
    \/ IdleFrame
    \/ StartClick
    \/ StopClick
    \/ StopJoinReturns

Next == (\E i \in Inst : Listener(i)) \/ App

Spec == Init /\ [][Next]_vars

\* One listener, started once, under fair scheduling: the scheduler runs
\* every thread that can take a step, the keep-alive makes connection.iter()
\* yield within bounded time (which notification it yields is not
\* constrained), every timed wait ends, and a join returns once the thread
\* it waits for has returned.
FairNext ==
    \/ \E i \in Inst : Listener(i)
    \/ PollEvent
    \/ PollJoinReturns
    \/ PollEmpty
    \/ IdleFrame
    \/ (nextInst = 1 /\ StartClick)
    \/ StopClick
    \/ StopJoinReturns

FairSpec ==
    /\ Init
    /\ [][FairNext]_vars
    /\ \A i \in Inst : WF_vars(Listener(i))
    /\ WF_vars(PollJoinReturns)
    /\ WF_vars(StopJoinReturns)

\* -------------------------------------------------------------- normalize
\* config.rs 224: toml::from_str has parsed a configuration file, whatever
\* it holds; the file is then normalized, saved and loaded again
NormalizeInit ==
    /\ InitRest
    /\ dashboard \in Dashboards(MaxItems)
    /\ normalized = <<>>
    /\ InitStartup
    /\ InitPure

NormalizeNext == Normalize

NormalizeSpec == NormalizeInit /\ [][NormalizeNext]_vars

\* ---------------------------------------------------------------- startup
\* The program starts: whatever is on disk and in the keyring, init runs
\* once, then frames follow and the user may press Start.
LoadInit ==
    /\ InitRest
    /\ dashboard = default_sections
    /\ normalized = <<>>
    /\ file \in Files
    /\ loaded = <<>>
    /\ cfgMqtt = MqttFields(MqttConfig_default)
    /\ keyring_unavailable = FALSE
    /\ keyring \in {<<>>} \cup {<<s>> : s \in Secrets}
    /\ secretLog = <<>>
    /\ password = <<>>
    /\ InitTest
    /\ InitPure

LoadNext ==
    \/ AppInit
    \/ (loaded # <<>> /\ PollEmpty)
    \/ (loaded # <<>> /\ IdleFrame)
    \/ (loaded # <<>> /\ nextInst = 1 /\ StartClick)

LoadSpec == LoadInit /\ [][LoadNext]_vars

\* ----------------------------------------------------------------- keyring
\* The functions of secrets.rs called on their own, as their test does.
SecretInit ==
    /\ InitRest
    /\ dashboard = default_sections
    /\ normalized = <<>>
    /\ file = NoFile
    /\ loaded = <<Ok(AppConfig_default)>>
    /\ cfgMqtt = MqttFields(MqttConfig_default)
    /\ keyring_unavailable = FALSE
    /\ keyring \in {<<>>} \cup {<<s>> : s \in Secrets}
    /\ secretLog = <<>>
    /\ password = <<>>
    /\ InitTest
    /\ InitPure

SecretNext == SavePassword \/ LoadPassword \/ DeletePassword

SecretSpec == SecretInit /\ [][SecretNext]_vars

\* --------------------------------------------------------------- one-shot
\* The user edits the credentials, tests the connection and presses Start,
\* in any order; the listener thread, once spawned, is not followed.
TestNext ==
    \/ EditUsername
    \/ EditPassword
    \/ TestClick
    \/ TestProbe
    \/ TestBuild
    \/ TestIterate
    \/ PollTest
    \/ PollEmpty
    \/ IdleFrame
    \/ (nextInst = 1 /\ StartClick)

TestSpec == Init /\ [][TestNext]_vars

\* --------------------------------------------------------------- password
\* The user edits the password, clicks the checkbox and the Save and Forget
\* buttons, in any order; no listener is started.
SettingsNext ==
    \/ EditPassword
    \/ RememberClick
    \/ SaveClick
    \/ ForgetClick
    \/ PollEmpty
    \/ IdleFrame

SettingsSpec == Init /\ [][SettingsNext]_vars

\* ------------------------------------------------------------ credentials
\* The user edits the credentials between clicks on Start and Stop; one
\* listener is started at most.
CredNext ==
    \/ FairNext
    \/ EditUsername
    \/ EditPassword

CredSpec == Init /\ [][CredNext]_vars

\* ----------------------------------------------------------- pure functions
\* subscriptions on any topic prefix a configuration file can hold, and on
\* none
SubsInit ==
    /\ InitRest
    /\ dashboard = default_sections
    /\ normalized = <<>>
    /\ InitStartup
    /\ sensor = <<>>
    /\ classified = <<>>
    /\ topic_prefix \in {<<>>} \cup {<<p>> : p \in Prefixes(MaxPrefix)}
    /\ subs = <<>>
    /\ InitPublish

SubsSpec == SubsInit /\ [][Subscribe]_vars

\* map_sensor_kind on the last topic segment of any publish
ClassifyInit ==
    /\ InitRest
    /\ dashboard = default_sections
    /\ normalized = <<>>
    /\ InitStartup
    /\ sensor \in SensorNames(MaxTokens)
    /\ classified = <<>>
    /\ topic_prefix = <<>>
    /\ subs = <<>>
    /\ InitPublish

ClassifySpec == ClassifyInit /\ [][Classify]_vars

\* ------------------------------------------------------------ map_publish
\* the topics made of up to n pieces: the separator, sensor names that a
\* rule matches, in either case, and one that none matches
RECURSIVE Topics(_)
Topics(n) ==
    IF n = 0 THEN {<<>>}
    ELSE LET shorter == Topics(n - 1)
         IN  shorter \cup {a \o t : a \in shorter,
                                     t \in {<<"/">>, Pattern.co2,
                                            <<"T", "e", "m", "p">>, <<"x">>}}

\* the payloads of up to n characters over a digit, the point, the sign,
\* the exponent letter and the blank
RECURSIVE Payloads(_)
Payloads(n) ==
    IF n = 0 THEN {<<>>}
    ELSE LET shorter == Payloads(n - 1)
         IN  shorter \cup {Append(a, c) : a \in shorter,
                                          c \in {"7", ".", "-", "e", " "}}

\* payloads that are words, and numbers with something around them
PayloadWords ==
    {PayloadChars("not-a-number"), PayloadChars("12.3"), <<"n", "a", "n">>,
     <<"N", "a", "N">>, <<"i", "n", "f">>,
     <<"-", "I", "n", "f", "i", "n", "i", "t", "y">>, <<"7", "x">>,
     <<"0", "x", "7">>, <<"7", ",", "7">>, <<"\t", "7", "E", "+", "7", "\n">>,
     <<"7", "e", "7">>, <<"7", "e", "-">>, <<"-", ".", "7">>,
     <<"7", ".", "e", "7">>, <<".", "e", "7">>, <<"7", ".", "7", ".">>}

\* Listener 1 has been started, has made its first pass through lines
\* 57-81 and has taken the ConnAck; the UI thread has not drained the
\* channel yet
InSession ==
    /\ lpc = [i \in Inst |-> IF i = 1 THEN "recv" ELSE "unborn"]
    /\ backoff = [i \in Inst |-> InitialBackoff]
    /\ attempt = [i \in Inst |-> IF i = 1 THEN 1 ELSE 0]
    /\ stopped = [i \in Inst |-> FALSE]
    /\ reason = [i \in Inst |-> None]
    /\ stopQ = [i \in Inst |-> 0]
    /\ acked = [i \in Inst |-> i = 1]
    /\ pubs = [i \in Inst |-> 0]
    /\ emitted = [i \in Inst |->
                    IF i = 1
                    THEN <<EvStatus(1, "MQTT connected; subs", 0),
                           EvConnected(1)>>
                    ELSE <<>>]
    /\ pings = [i \in Inst |-> 0]
    /\ observedAt = [i \in Inst |-> -1]
    /\ observedIn = [i \in Inst |-> ""]
    /\ failedAt = [i \in Inst |-> -1]
    /\ chan = emitted[1]
    /\ apc = "poll"
    /\ joinOn = 0
    /\ connected = FALSE
    /\ status = StatusLine("Starting MQTT listener...", "", 0)
    /\ mqtt_handle = 1
    /\ mqtt_stop = 1
    /\ cfgTls = TRUE
    /\ hasUser = FALSE
    /\ hasPw = FALSE
    /\ nextInst = 2
    /\ applied = <<>>
    /\ metrics = NoMetrics

\* such a session, and any one packet about to be delivered in it
PublishInit ==
    /\ InSession
    /\ waits = [i \in Inst |-> <<>>]
    /\ delivered = [i \in Inst |-> <<>>]
    /\ dashboard = default_sections
    /\ normalized = <<>>
    /\ InitStartup
    /\ sensor = <<>>
    /\ classified = <<>>
    /\ topic_prefix = <<>>
    /\ subs = <<>>
    /\ publish \in {<<[topic |-> t, payload |-> w]>> :
                       t \in Topics(MaxTopic),
                       w \in Payloads(MaxPayload) \cup PayloadWords}
    /\ mapped = <<>>
    /\ drawn = <<>>

PublishSpec == PublishInit /\ [][\E i \in Inst : ReceiveText(i)]_vars

\* Topics whose last segment is a sensor name written in small letters, in
\* capitals or with a capital first letter, under nothing, under one
\* segment or under two
CaseTopics ==
    LET upper(w) ==
            [k \in DOMAIN w |->
                IF \E u \in DOMAIN LowerCase : LowerCase[u] = w[k]
                THEN UpperCase[CHOOSE u \in DOMAIN LowerCase :
                                   LowerCase[u] = w[k]]
                ELSE w[k]]
        names == {Pattern.pm_1mm, Pattern.pm_2_5mm, Pattern.pm_10mm,
                  Pattern.pm_1_to_2_5, Pattern.pm_0_3_to_1,
                  Pattern.pm_2_5_to_4, Pattern.pm_4_to_10, Pattern.voc,
                  Pattern.co2, Pattern.temp, Pattern.hum,
                  <<"u", "p", "t", "i", "m", "e">>, <<"x">>}
        written == UNION {{w, upper(w), upper(SubSeq(w, 1, 1)) \o Tail(w)} :
                            w \in names}
    IN  {above \o w : above \in {<<>>, Pattern.co2 \o <<"/">>,
                                  <<"X", "/", "T", "e", "m", "p", "/">>},
                      w \in written}

\* such a session, and any two such packets about to be delivered in it
CaseInit ==
    /\ InSession
    /\ waits = [i \in Inst |-> <<>>]
    /\ delivered = [i \in Inst |-> <<>>]
    /\ dashboard = default_sections
    /\ normalized = <<>>
    /\ InitStartup
    /\ sensor = <<>>
    /\ classified = <<>>
    /\ topic_prefix = <<>>
    /\ subs = <<>>
    /\ publish \in {<<[topic |-> t, payload |-> PayloadChars("7")],
                       [topic |-> u, payload |-> PayloadChars("12.3")]>> :
                       t \in CaseTopics, u \in CaseTopics}
    /\ mapped = <<>>
    /\ drawn = <<>>

CaseSpec == CaseInit /\ [][\E i \in Inst : ReceiveText(i)]_vars

\* ---------------------------------------------------------------- backoff
\* One whole pass of the loop of run_listener (mqtt.rs 56-131) in which no
\* stop request arrives and no publish is delivered: the options are built,
\* Status and Connected are sent, the receive loop ends without a stop,
\* Disconnected and the "Reconnecting in" Status are sent, the listener
\* waits `wait` seconds, the wait times out and the backoff becomes `next`.
\* `how` is the way the attempt ends: "refused" is a transport error before
\* any ConnAck, "lost" is the end of the stream after the ConnAck.
Pass(i, long, how, wait, next) ==
    LET ev(e) == [e EXCEPT !.att = attempt[i] + 1]
    IN  /\ lpc[i] = "top"
        /\ stopQ[i] = 0
        /\ Len(waits[i]) < MaxFailures
        /\ attempt' = [attempt EXCEPT ![i] = @ + 1]
        /\ acked' = [acked EXCEPT ![i] = (how = "lost")]
        /\ stopped' = [stopped EXCEPT ![i] = FALSE]
        /\ reason' = [reason EXCEPT ![i] = IF how = "lost" THEN None
                                           ELSE "transport error"]
        /\ Send(i, <<ev(EvStatus(i, "MQTT connected; subs", 0)),
                     ev(EvConnected(i)),
                     ev(EvDisconnected(i, IF how = "lost"
                                          THEN "connection closed"
                                          ELSE "transport error")),
                     ev(EvStatus(i, "Reconnecting in", wait))>>)
        /\ waits' = [waits EXCEPT ![i] =
                        Append(@, [long |-> long, wait |-> wait])]
        /\ backoff' = [backoff EXCEPT ![i] = next]
        /\ UNCHANGED <<lpc, stopQ, pubs, pings, observedAt, observedIn,
                       failedAt, avars, delivered>>

\* FailedAttempt with the doubling of line 130 done before the wait
FailedAttempt_DoublesFirst(i) ==
    \E long \in BOOLEAN, how \in {"refused", "lost"} :
        Pass(i, long, how, NextBackoff(NextWait(i, long)),
             NextBackoff(NextWait(i, long)))

\* mqtt.rs 114-130 at the end of such a pass: the reset, `wait = backoff`,
\* the wait, then the doubling
FailedAttempt(i) ==
    \E long \in BOOLEAN, how \in {"refused", "lost"} :
        Pass(i, long, how, NextWait(i, long), NextBackoff(NextWait(i, long)))

\* One listener is started and its attempts fail one after the other; no
\* stop is requested and the events are left in the channel.
BackoffNext ==
    \/ PollEmpty
    \/ (nextInst = 1 /\ StartClick)
    \/ \E i \in Inst : FailedAttempt(i)

BackoffSpec == Init /\ [][BackoffNext]_vars

\* ---------------------------------------------------------------- session
\* What connection.iter() yields in such a session: the ConnAck, then
\* publishes, and a transport error at any time
SessionNotifications(i) ==
    {[n |-> "err"]}
    \cup (IF acked[i] THEN {} ELSE {[n |-> "connack"]})
    \cup (IF acked[i] /\ Len(delivered[i]) < MaxDeliveries
          THEN {[n |-> "publish", p |-> p] : p \in SessionPublishes}
          ELSE {})

\* mqtt.rs 82-104 with no stop request in the channel: one pass of the
\* receive loop, the publish it matched written down with its attempt
ReceiveRecorded(i) ==
    /\ lpc[i] = "recv"
    /\ stopQ[i] = 0
    /\ \E nt \in SessionNotifications(i) :
          /\ OnNotification(i, nt)
          /\ delivered' =
                IF nt.n = "publish"
                THEN [delivered EXCEPT ![i] =
                        Append(@, [p |-> nt.p, att |-> attempt[i]])]
                ELSE delivered
    /\ UNCHANGED <<backoff, attempt, stopped, stopQ, observedAt, observedIn,
                   failedAt, avars, waits>>

\* One listener is started and never stopped; the UI thread drains the
\* channel frame by frame while the broker delivers.
SessionNext ==
    \/ \E i \in Inst : \/ LoopTop(i)
                        \/ Connect(i)
                        \/ ReceiveRecorded(i)
                        \/ AfterLoop(i)
                        \/ Wait(i)
    \/ PollEvent
    \/ PollJoinReturns
    \/ PollEmpty
    \/ IdleFrame
    \/ (nextInst = 1 /\ StartClick)

SessionSpec == Init /\ [][SessionNext]_vars

\* ---------------------------------------------------------------- reducer
\* An event put into the channel by hand, as app_test.rs does through
\* app.mqtt_tx: no listener thread has sent it
TestEvent(type, text, topic, kind, value) ==
    [type |-> type, text |-> text, topic |-> topic, kind |-> kind,
     value |-> value, src |-> 0, att |-> 0]

\* the events of app_test.rs 47-190 (values in tenths), and a reading under
\* the second name of a kind
TestEvents ==
    { TestEvent("Connected", "", "", "", 0),
      TestEvent("Disconnected", "Connection lost", "", "", 0),
      TestEvent("Status", "Processing data", "", "", 0),
      TestEvent("Metric", "", <<"sensors", "pm25">>, "pm25", 255),
      TestEvent("Metric", "", <<"air", "pm2_5">>, "pm2_5", 100),
      TestEvent("Metric", "", <<"sensors", "temp">>, "temp", 720),
      TestEvent("Metric", "", <<"sensors", "unknown">>, "unknown_metric",
                1000) }

\* app.mqtt_tx.send(event).unwrap()
TestSend ==
    /\ Len(applied) + Len(chan) < MaxEvents
    /\ \E e \in TestEvents : chan' = Append(chan, e)
    /\ UNCHANGED <<lvars, avars, hvars>>

\* create_test_app() and then sends and frames in any order; no listener
\* thread runs
ReducerNext ==
    \/ TestSend
    \/ PollEvent
    \/ PollEmpty
    \/ IdleFrame

ReducerSpec == Init /\ [][ReducerNext]_vars

\* ------------------------------------------------------------------ frame
\* create_test_app(), up to two events sent and drained, and a frame drawn
\* at some time after
DrawNext ==
    \/ (Len(applied) + Len(chan) < 2 /\ TestSend)
    \/ PollEvent
    \/ PollEmpty
    \/ IdleFrame
    \/ Draw

DrawSpec == Init /\ [][DrawNext]_vars

\* ------------------------------------------------------------- properties
Idx(i) == DOMAIN emitted[i]

IsStoppedEv(e) == e.type = "Disconnected" /\ e.text = "stopped"

IsStopStatus(e) == e.type = "Status" /\ e.text = "MQTT stop requested"

StoppedCount(i) == Cardinality({k \in Idx(i) : IsStoppedEv(emitted[i][k])})

\* the events thread i has sent since it saw the stop request
SinceObserved(i) == SubSeq(emitted[i], observedAt[i] + 1, Len(emitted[i]))

\* C1: in the events of one listener, between any two Connected events
\* there is a Disconnected event, and it belongs to the attempt of the
\* earlier Connected.
C1_DisconnectedBetweenConnected ==
    \A i \in Inst : \A a \in Idx(i) :
        emitted[i][a].type = "Connected"
        => \A b \in (a + 1)..Len(emitted[i]) :
              emitted[i][b].type = "Connected"
              => \E c \in (a + 1)..(b - 1) :
                    /\ emitted[i][c].type = "Disconnected"
                    /\ emitted[i][c].att = emitted[i][a].att

C1_Witness ==
    \E i \in Inst : \E a \in Idx(i), b \in Idx(i) :
        /\ a < b
        /\ emitted[i][a].type = "Connected"
        /\ emitted[i][b].type = "Connected"
        /\ emitted[i][b].att = emitted[i][a].att + 1

\* C2: every Metric event of a listener comes after a Connected event of
\* that listener with no Disconnected event between the two.
C2_MetricInsideSession ==
    \A i \in Inst : \A m \in Idx(i) :
        emitted[i][m].type = "Metric"
        => \E c \in 1..(m - 1) :
              /\ emitted[i][c].type = "Connected"
              /\ \A d \in (c + 1)..(m - 1) :
                    emitted[i][d].type # "Disconnected"

C2_Witness ==
    \E i \in Inst : \E m \in Idx(i) :
        /\ emitted[i][m].type = "Metric"
        /\ emitted[i][m].att = 2

\* C3: a listener that has seen the stop request is on its way out: it
\* sends Disconnected("stopped") exactly once, sends nothing after it, and
\* returns.
C3_StoppedIsFinal ==
    \A i \in Inst : observedAt[i] >= 0 =>
        /\ lpc[i] \in {"after_loop", "done"}
        /\ \A k \in Idx(i) :
              IsStoppedEv(emitted[i][k])
              => (k = Len(emitted[i]) /\ lpc[i] = "done")
        /\ lpc[i] = "done" => StoppedCount(i) = 1

C3_StopEmitsStoppedAndReturns ==
    /\ []C3_StoppedIsFinal
    /\ \A i \in Inst : (observedAt[i] >= 0) ~> (lpc[i] = "done")

C3_Witness ==
    \E i \in Inst :
        /\ observedIn[i] = "recv"
        /\ lpc[i] = "done"
        /\ StoppedCount(i) = 1
        /\ IsStoppedEv(Last(emitted[i]))

\* C4 as stated: once a listener has seen the stop request, the only event
\* it sends is Disconnected("stopped").
C4_OnlyStoppedAfterStop ==
    \A i \in Inst : observedAt[i] >= 0 =>
        \A k \in 1..Len(SinceObserved(i)) : IsStoppedEv(SinceObserved(i)[k])

\* C4, amended: once a listener has seen the stop request it sends exactly
\* Status("MQTT stop requested") and then Disconnected("stopped"): no
\* Metric, no Connected and no other Status.
C4_StatusThenStoppedAfterStop ==
    \A i \in Inst : observedAt[i] >= 0 =>
        /\ Len(SinceObserved(i)) <= 2
        /\ Len(SinceObserved(i)) >= 1 => IsStopStatus(SinceObserved(i)[1])
        /\ Len(SinceObserved(i)) = 2 => IsStoppedEv(SinceObserved(i)[2])
        /\ lpc[i] = "done" => Len(SinceObserved(i)) = 2

C4_Witness ==
    \E i \in Inst :
        /\ observedAt[i] >= 0
        /\ lpc[i] = "done"
        /\ Len(SinceObserved(i)) = 2
        /\ \E k \in 1..observedAt[i] : emitted[i][k].type = "Metric"

\* C5: once a stop request is in a listener's stop channel the listener
\* returns, whatever it was doing, and the join in stop_mqtt returns.
C5_StopLeadsToReturn ==
    /\ \A i \in Inst : (stopQ[i] > 0) ~> (lpc[i] = "done")
    /\ (apc = "stopJoin") ~> (apc = "poll")

C5_Witness ==
    \E i \in Inst :
        /\ lpc[i] = "done"
        /\ observedAt[i] >= 0
        /\ apc = "poll"
        /\ status.text = "MQTT stopped"

\* C6: the step a listener takes out of the backoff wait while a stop
\* request is in its channel is the return: it sends Disconnected("stopped")
\* last and makes no further connection attempt.
C6_StopEndsWait ==
    [][\A i \in Inst :
          (lpc[i] = "wait" /\ stopQ[i] > 0 /\ lpc'[i] # "wait")
          => /\ lpc'[i] = "done"
             /\ attempt'[i] = attempt[i]
             /\ backoff'[i] = backoff[i]
             /\ IsStoppedEv(Last(emitted'[i]))]_vars

C6_Witness ==
    \E i \in Inst :
        /\ observedIn[i] = "wait"
        /\ lpc[i] = "done"
        /\ IsStoppedEv(Last(emitted[i]))

\* C7 as stated: a listener that has returned has seen a stop request.
C7_ReturnsOnlyOnStop ==
    \A i \in Inst : lpc[i] = "done" => observedAt[i] >= 0

\* C8 as stated: a TLS setup failure is followed by a Disconnected event,
\* and the listener goes on (it returns only on a stop request).
C8_TlsFailureReportedAndRetried ==
    \A i \in Inst : failedAt[i] >= 0 =>
        /\ Len(emitted[i]) > failedAt[i]
        /\ emitted[i][failedAt[i] + 1].type = "Disconnected"
        /\ lpc[i] = "done" => observedAt[i] >= 0

\* C9 as stated: while an attempt is under way, its Connected event has
\* been sent only if the broker has acknowledged the connection.
C9_ConnectedOnlyAfterAck ==
    \A i \in Inst :
        (/\ lpc[i] \in {"recv", "after_loop"}
         /\ \E k \in Idx(i) : /\ emitted[i][k].type = "Connected"
                              /\ emitted[i][k].att = attempt[i])
        => acked[i]

\* C10 as stated: poll_mqtt never waits for a listener that is still
\* running.
C10_DrainNeverWaits ==
    apc = "pollJoin" => lpc[joinOn] = "done"

\* the first k waits of thread i all followed sessions shorter than 60 s
NoReset(i, k) == \A j \in 1..k : ~waits[i][j].long

\* C11: with no reset the waits of consecutive failed attempts are 1, 2, 4,
\* 8, 16, 30, 30, ... seconds: the first is 1, each later one is
\* min(2 x the one before, 30); and every wait is between 1 and 30 seconds.
C11_WaitsDoubleUpToCap ==
    \A i \in Inst : \A k \in DOMAIN waits[i] :
        /\ waits[i][k].wait >= 1
        /\ waits[i][k].wait <= 30
        /\ NoReset(i, k) =>
              /\ k = 1 => waits[i][k].wait = 1
              /\ k > 1 => waits[i][k].wait = Min(2 * waits[i][k - 1].wait, 30)
              /\ k <= 7 => waits[i][k].wait = <<1, 2, 4, 8, 16, 30, 30>>[k]

C11_Witness ==
    \E i \in Inst :
        /\ Len(waits[i]) = 7
        /\ NoReset(i, 7)
        /\ waits[i][5].wait = 16
        /\ waits[i][6].wait = 30
        /\ waits[i][7].wait = 30

\* C12 as stated: after three failures in a row, each of a session shorter
\* than 60 s, the wait before the fourth attempt is 8 seconds.
C12_FourthAttemptWaits8 ==
    \A i \in Inst :
        (Len(waits[i]) >= 3 /\ NoReset(i, 3)) => waits[i][3].wait = 8

\* C12, amended: after three such failures the wait before the fourth
\* attempt is min(1*2^2, 30) = 4 seconds; 8 seconds is the wait after a
\* fourth failure.
C12_FourthAttemptWaits4 ==
    \A i \in Inst :
        /\ (Len(waits[i]) >= 3 /\ NoReset(i, 3)) => waits[i][3].wait = 4
        /\ (Len(waits[i]) >= 4 /\ NoReset(i, 4)) => waits[i][4].wait = 8

C12_Witness ==
    \E i \in Inst :
        /\ Len(waits[i]) = 3
        /\ NoReset(i, 3)
        /\ attempt[i] = 3
        /\ lpc[i] = "top"
        /\ Last(emitted[i]).text = "Reconnecting in"
        /\ Last(emitted[i]).value = 4

IsPrefix(s, t) == Len(s) <= Len(t) /\ SubSeq(t, 1, Len(s)) = s

\* the events of seq that thread i sent
From(seq, i) == SelectSeq(seq, LAMBDA e : e.src = i)

\* the Metric events thread i sent in attempt a
MetricsOfAttempt(i, a) ==
    SelectSeq(emitted[i], LAMBDA e : e.type = "Metric" /\ e.att = a)

\* the publishes delivered to thread i in attempt a that map to a reading
ReadingsOfAttempt(i, a) ==
    SelectSeq(delivered[i], LAMBDA d : d.att = a /\ Mapped[d.p] # <<>>)

\* C14: the consumer applies the events of a listener in the order the
\* listener sent them, each once and none skipped: what it has applied is
\* a prefix of what was sent, and the rest is in the channel in order.
\* Within one attempt the Metric events are in the order in which the
\* publishes came from the broker.
C14_AppliedInEmittedOrder ==
    \A i \in Inst :
        /\ IsPrefix(From(applied, i), emitted[i])
        /\ From(applied \o chan, i) = emitted[i]
        /\ \A a \in 1..attempt[i] :
              /\ Len(MetricsOfAttempt(i, a)) = Len(ReadingsOfAttempt(i, a))
              /\ \A k \in 1..Len(MetricsOfAttempt(i, a)) :
                    /\ MetricsOfAttempt(i, a)[k].topic
                          = ReadingsOfAttempt(i, a)[k].p.topic
                    /\ MetricsOfAttempt(i, a)[k].value
                          = Mapped[ReadingsOfAttempt(i, a)[k].p][1].value

C14_Witness ==
    \E i \in Inst :
        /\ chan = <<>>
        /\ applied = emitted[i]
        /\ Len(MetricsOfAttempt(i, 1)) = 2
        /\ MetricsOfAttempt(i, 1)[1].value = 123
        /\ MetricsOfAttempt(i, 1)[2].value = 70
        /\ delivered[i][1].p.payload = "12.3"
        /\ delivered[i][2].p.payload = "7"

\* the slots of the snapshot and the kinds that name each
KindsOfSlot ==
    [pm1 |-> {"pm1"}, pm25 |-> {"pm25", "pm2_5"}, pm10 |-> {"pm10"},
     tvoc |-> {"tvoc"}, co2 |-> {"co2"}, temp |-> {"temp", "temperature"},
     humidity |-> {"humidity"}]

RecognizedKinds == UNION {KindsOfSlot[s] : s \in DOMAIN KindsOfSlot}

Max(S) == CHOOSE x \in S : \A y \in S : y <= x

\* where in the applied events the Metric events of the kinds K are
MetricIdx(K) ==
    {n \in DOMAIN applied : applied[n].type = "Metric" /\ applied[n].kind \in K}

AnyMetricIdx == {n \in DOMAIN applied : applied[n].type = "Metric"}

LifecycleIdx ==
    {n \in DOMAIN applied : applied[n].type \in {"Connected", "Disconnected"}}

Applies(type) ==
    /\ chan # <<>>
    /\ Head(chan).type = type
    /\ applied' = Append(applied, Head(chan))

\* C16: applying Disconnected sets connected to false and changes no
\* metric value, nor last_topic, nor last_update; applying the next
\* Connected changes none of them either, so the values seen before the
\* disconnect are still there.
C16_DisconnectKeepsReadings ==
    [][/\ Applies("Disconnected") => (~connected' /\ metrics' = metrics)
       /\ Applies("Connected") => (connected' /\ metrics' = metrics)]_vars

C16_Witness ==
    /\ Len(applied) = 3
    /\ applied[1].type = "Metric"
    /\ applied[2].type = "Disconnected"
    /\ applied[3].type = "Connected"
    /\ metrics.pm25 = <<255>>
    /\ metrics.last_update = <<1>>
    /\ connected

\* C17 as stated: applying a Metric event of an unrecognized kind changes
\* nothing of the snapshot: no metric value, nor last_topic, nor
\* last_update, nor connected.
C17_UnknownKindChangesNothing ==
    [][(Applies("Metric") /\ Head(chan).kind \notin RecognizedKinds)
       => (metrics' = metrics /\ connected' = connected)]_vars

\* thread i has sent no Disconnected event in attempt a or later
NoDisconnectedSince(i, a) ==
    \A n \in Idx(i) :
        emitted[i][n].type = "Disconnected" => emitted[i][n].att < a

\* a publish of the PM2.5 sensor with a numeric payload
IsPm25Reading(d) ==
    /\ Last(d.p.topic) = "pm_2_5mm_weight_concentration"
    /\ d.p.payload \in {"12.3", "7"}

\* C18: a publish delivered in an open session, whose last topic segment
\* names the PM2.5 sensor and whose payload is a number, is in the snapshot
\* once the consumer has drained the channel: the PM2.5 slot holds the
\* number, last_topic is the whole topic and connected is true, provided
\* the listener has sent no Disconnected since and no later reading has
\* taken its place.
C18_PublishReachesSnapshot ==
    \A i \in Inst : \A k \in DOMAIN delivered[i] :
        (/\ IsPm25Reading(delivered[i][k])
         /\ \A j \in (k + 1)..Len(delivered[i]) :
               ~IsPm25Reading(delivered[i][j])
         /\ NoDisconnectedSince(i, delivered[i][k].att)
         /\ chan = <<>>
         /\ From(applied, i) = emitted[i])
        => /\ metrics.pm25 = <<IF delivered[i][k].p.payload = "12.3"
                                THEN 123 ELSE 70>>
           /\ metrics.last_topic = <<delivered[i][k].p.topic>>
           /\ connected

C18_Witness ==
    \E i \in Inst :
        /\ Len(delivered[i]) = 2
        /\ delivered[i][1].p.payload = "12.3"
        /\ delivered[i][2].p.payload = "not-a-number"
        /\ NoDisconnectedSince(i, 1)
        /\ chan = <<>>
        /\ applied = emitted[i]
        /\ metrics.pm25 = <<123>>
        /\ metrics.last_topic
              = <<(<<"home", "sensor", "pm_2_5mm_weight_concentration">>)>>
        /\ connected

\* the ids of a list of sections or gauges, in order
IdsOf(items) == [k \in DOMAIN items |-> items[k].id]

NoDuplicates(seq) ==
    \A a \in DOMAIN seq : \A b \in DOMAIN seq : seq[a] = seq[b] => a = b

\* C19: normalize is idempotent: normalizing the result of normalize gives
\* that result again, whatever the configuration was (duplicate ids,
\* unknown ids, empty lists).
C19_NormalizeIdempotent ==
    /\ DashboardConfig_normalize(DashboardConfig_normalize(dashboard))
          = DashboardConfig_normalize(dashboard)
    /\ Len(normalized) >= 2 => dashboard = normalized[Len(normalized)]

C19_Witness ==
    /\ Len(normalized) = 2
    /\ Len(normalized[1]) = 2
    /\ normalized[1][1].id = "gas"
    /\ normalized[1][2].id = "gas"
    /\ IdsOf(normalized[1][1].gauges) = <<"x", "x">>
    /\ normalized[2] # normalized[1]
    /\ dashboard = normalized[2]

\* the built-in sections and the default gauges of each
BuiltIn ==
    [overview |-> {}, air_quality |-> {"pm25", "pm10", "pm1"},
     gas |-> {"co2", "tvoc"}, environment |-> {"temperature", "humidity"}]

\* C20: after normalize no section id occurs twice, no gauge id occurs
\* twice in a section, every built-in section is there and every built-in
\* section has each of its default gauges.
C20_NormalizedIsWellFormed ==
    Len(normalized) >= 1 =>
        /\ NoDuplicates(IdsOf(dashboard))
        /\ \A k \in DOMAIN dashboard :
              NoDuplicates(IdsOf(dashboard[k].gauges))
        /\ \A b \in DOMAIN BuiltIn :
              \E k \in DOMAIN dashboard :
                 /\ dashboard[k].id = b
                 /\ BuiltIn[b] \subseteq Seen(dashboard[k].gauges)

C20_Witness ==
    /\ Len(normalized) = 1
    /\ IdsOf(normalized[1]) = <<"gas", "gas">>
    /\ IdsOf(normalized[1][1].gauges) = <<"co2", "co2">>
    /\ IdsOf(dashboard) = <<"gas", "overview", "air_quality", "environment">>
    /\ IdsOf(dashboard[1].gauges) = <<"co2", "tvoc">>

\* a host that str::trim leaves empty
BlankHost(h) == \A k \in DOMAIN h : h[k] \in Whitespace

\* an [mqtt] table that breaks one of the four rules
InvalidTable(m) ==
    BlankHost(m.host) \/ m.port = 0 \/ m.qos > 2 \/ m.keepalive_secs = 0

\* C21: load_or_default never returns a configuration with an empty or
\* whitespace-only host, port 0, a QoS above 2 or keepalive 0: a file that
\* holds such a value is a load error, and a file that holds none is
\* returned with the values it holds.
C21_InvalidFileIsLoadError ==
    loaded # <<>> /\ file.kind # "no_config_dir" =>
        /\ loaded[1].ok => ~InvalidTable(loaded[1].value.mqtt)
        /\ file.kind = "parsed" =>
              IF InvalidTable(file.mqtt)
              THEN ~loaded[1].ok
              ELSE loaded[1].ok /\ loaded[1].value.mqtt = file.mqtt

\* a file whose only fault is QoS 3 has been refused
C21_Witness ==
    /\ loaded # <<>>
    /\ file.kind = "parsed"
    /\ file.mqtt.qos = 3
    /\ ~BlankHost(file.mqtt.host)
    /\ file.mqtt.port # 0
    /\ file.mqtt.keepalive_secs # 0
    /\ ~loaded[1].ok
    /\ loaded[1].error = "MQTT QoS must be between 0 and 2"

\* C22: when the configuration file fails to load or validate, init tells
\* the user: from the return of init until a listener is started, the
\* status line is not empty.
C22_LoadErrorReported ==
    loaded # <<>> /\ ~loaded[1].ok /\ nextInst = 1 => status.text # ""

\* the calls before call k that changed the keyring
WritesBefore(k) ==
    {j \in 1..(k - 1) : /\ secretLog[j].op \in {"save", "delete"}
                        /\ secretLog[j].result.ok
                        /\ ~secretLog[j].fault}

Running == {i \in Inst : lpc[i] \notin {"unborn", "done"}}

\* C24: at most one listener thread exists at any time, whatever the order
\* of Start clicks, Stop clicks, event drains and listener steps.
C24_AtMostOneListener == Cardinality(Running) <= 1

\* a second listener runs after the first has been stopped and joined
C24_Witness ==
    /\ lpc[1] = "done"
    /\ lpc[2] \in {"build", "recv", "wait"}
    /\ mqtt_handle = 2

\* the events thread i sends in this step
NewEvents(i) == SubSeq(emitted'[i], Len(emitted[i]) + 1, Len(emitted'[i]))

\* C30: a Disconnected event carries "stopped" if and only if the listener
\* has observed a stop request; otherwise it carries the text of the
\* transport error that ended the session, and "connection closed" when the
\* notification stream ended without one.
C30_DisconnectedReason ==
    [][\A i \in Inst : \A k \in DOMAIN NewEvents(i) :
          LET e == NewEvents(i)[k]
          IN  e.type = "Disconnected" =>
                /\ e.text = "stopped" <=> observedAt'[i] >= 0
                /\ observedAt'[i] < 0 /\ reason[i] # None =>
                      e.text = "transport error"
                /\ observedAt'[i] < 0 /\ reason[i] = None =>
                      e.text = "connection closed"]_vars

\* one listener has sent a Disconnected of each of the three kinds
C30_Witness ==
    \E i \in Inst :
        \A text \in {"transport error", "connection closed", "stopped"} :
            \E k \in Idx(i) : /\ emitted[i][k].type = "Disconnected"
                              /\ emitted[i][k].text = text

\* C23: the listener is never started while a username is set and no
\* password is present: no step from such a state spawns a listener thread
\* or sets mqtt_handle or mqtt_stop, and the Start click that answers
\* "Password required when username is set" changes nothing but the status
\* line.
C23_NoStartWithoutPassword ==
    [][/\ hasUser /\ ~hasPw =>
            /\ \A i \in Inst : lpc[i] = "unborn" => lpc'[i] = "unborn"
            /\ mqtt_handle = 0 => mqtt_handle' = 0
            /\ mqtt_stop = 0 => mqtt_stop' = 0
       /\ /\ apc = "ui"
          /\ status' # status
          /\ status'.text = "Password required when username is set"
          => /\ hasUser /\ ~hasPw
             /\ UNCHANGED <<lvars, chan, joinOn, connected, mqtt_handle,
                            mqtt_stop, cfgTls, hasUser, hasPw, nextInst,
                            applied, metrics, dvars, hvars>>]_vars

\* Start has been pressed with a username and no password
C23_Witness ==
    /\ hasUser
    /\ ~hasPw
    /\ status.text = "Password required when username is set"
    /\ mqtt_handle = 0
    /\ mqtt_stop = 0
    /\ \A i \in Inst : lpc[i] = "unborn"

\* a call of test_connection that got as far as connection.iter()
Iterated(t) == t.seen # <<>>

\* the notifications before the one that ended the call are neither the
\* ConnAck nor an error: the call returned on the first of either
ReturnedOnFirst(t) ==
    \A k \in 1..(Len(t.seen) - 1) : t.seen[k].n = "other"

\* what holds of test_connection whatever the clock says
OneAttempt ==
    /\ \A k \in DOMAIN tested :
          LET t == tested[k]
          IN  /\ t.result = Err("socket check failed") =>
                    ~t.opened /\ t.seen = <<>>
              /\ ReturnedOnFirst(t)
              /\ Iterated(t) /\ Last(t.seen).n = "err" => ~t.result.ok
              /\ t.result.ok => Iterated(t) /\ Last(t.seen).n = "connack"
    /\ tthread.pc = "iter" =>
          \A k \in DOMAIN tthread.seen : tthread.seen[k].n = "other"

\* a step of the test thread sends no MqttEvent
NoEventFromTest == tthread' # tthread => UNCHANGED <<chan, emitted>>

\* C25 as stated: one attempt, failure without a session when the probe
\* fails, otherwise success on the first ConnAck and failure on the first
\* transport error, no retry and no MqttEvent.
C25_AckIsSuccess ==
    /\ [](/\ OneAttempt
          /\ \A k \in DOMAIN tested :
                Iterated(tested[k]) /\ Last(tested[k].seen).n = "connack"
                    => tested[k].result.ok)
    /\ [][NoEventFromTest]_vars

\* C25, amended: the first ConnAck is success only when it comes within the
\* 5 s of the timeout; a ConnAck or any other packet that comes later is the
\* failure "MQTT test timed out".
C25_AckInTimeIsSuccess ==
    /\ [](/\ OneAttempt
          /\ \A k \in DOMAIN tested :
                LET t == tested[k]
                IN  Iterated(t) =>
                      /\ Last(t.seen).n = "connack" /\ ~Last(t.seen).late
                            => t.result.ok
                      /\ Last(t.seen).n # "eof" /\ Last(t.seen).late
                            => t.result = Err("MQTT test timed out"))
    /\ [][NoEventFromTest]_vars

\* a test has succeeded on the ConnAck that followed another packet
C25_Witness ==
    \E k \in DOMAIN tested :
        /\ tested[k].result.ok
        /\ Len(tested[k].seen) = 2
        /\ tested[k].seen[1].n = "other"
        /\ tested[k].seen[2].n = "connack"
        /\ tested[k].opened

\* C29: neither run_listener nor test_connection is ever invoked with a
\* username set and no password.
C29_NoCallWithoutPassword ==
    [][/\ \A i \in Inst :
             lpc[i] = "unborn" /\ lpc'[i] # "unborn" => ~(hasUser /\ ~hasPw)
       /\ tthread.pc = "idle" /\ tthread'.pc = "probe" =>
             ~(tthread'.user /\ tthread'.pw = <<>>)]_vars

\* C27: every kind map_sensor_kind gives a Metric event is one the match of
\* poll_mqtt has a slot for, so no event of the listener takes the
\* `_ => continue` arm.
C27_KindsAreRecognized ==
    classified # <<>> /\ classified[1] # None => Slot(classified[1]) # None

\* a name in capitals that holds "voc" has been classified
C27_Witness ==
    /\ classified = <<"tvoc">>
    /\ sensor = <<"T", "e", "m", "p">> \o Pattern.voc

\* a '#' or '/' at the end of s
EndsInWildcardOrSlash(s) == s # <<>> /\ Last(s) \in {"#", "/"}

\* C28: the listener subscribes to exactly one filter, the prefix with any
\* trailing wildcard or slash removed plus "/#" ("homeassistant/#" when no
\* prefix is set), and the filter holds '#' only as its final character.
C28_OneFilterEndingInWildcard ==
    subs # <<>> =>
        /\ Len(subs) = 1
        /\ topic_prefix = <<>> => subs[1] = Homeassistant \o <<"/", "#">>
        /\ LET f == subs[1]
               base == SubSeq(f, 1, Len(f) - 2)
           IN  /\ Len(f) >= 2
               /\ SubSeq(f, Len(f) - 1, Len(f)) = <<"/", "#">>
               /\ ~EndsInWildcardOrSlash(base)
               /\ topic_prefix # <<>> =>
                     IsPrefix(base, trim(topic_prefix[1]))
               /\ \A k \in 1..(Len(f) - 1) : f[k] # "#"

\* C31: every backoff wait comes right after a Status event that announces
\* the very duration waited, and that Status comes right after the
\* Disconnected event of the attempt that failed: while a listener waits,
\* the last event it has sent is Status("Reconnecting in Ns") with N the
\* timeout of the wait, and the event before it is the Disconnected of the
\* current attempt.
C31_WaitIsAnnounced ==
    \A i \in Inst : lpc[i] = "wait" =>
        LET n == Len(emitted[i])
        IN  /\ n >= 2
            /\ emitted[i][n].type = "Status"
            /\ emitted[i][n].text = "Reconnecting in"
            /\ emitted[i][n].value = backoff[i]
            /\ emitted[i][n - 1].type = "Disconnected"
            /\ emitted[i][n - 1].text # "stopped"
            /\ emitted[i][n - 1].att = attempt[i]
            /\ emitted[i][n].att = attempt[i]

\* a listener waits 2 s after its second failed attempt
C31_Witness ==
    \E i \in Inst :
        /\ lpc[i] = "wait"
        /\ attempt[i] = 2
        /\ backoff[i] = 2
        /\ Last(emitted[i]).value = 2
        /\ emitted[i][Len(emitted[i]) - 1].text = "transport error"

\* the part of a topic after its last '/'
LastSegment(topic) ==
    LET slashes == {k \in DOMAIN topic : topic[k] = "/"}
    IN  IF slashes = {} THEN topic
        ELSE SubSeq(topic, Max(slashes) + 1, Len(topic))

\* s is a floating-point literal: an optional sign, then digits with at most
\* one point among them and at least one digit, then an optional exponent
\* (e or E, an optional sign, digits); or, after the sign, one of the words
\* inf, infinity and nan in any case
IsFloatLiteral(s) ==
    \E a \in 0..Len(s), b \in 0..Len(s), c \in 0..Len(s) :
        LET sign == SubSeq(s, 1, a)
            whole == SubSeq(s, a + 1, b)
            rest == SubSeq(s, b + 1, c)
            exp == SubSeq(s, c + 1, Len(s))
        IN  /\ a <= b /\ b <= c
            /\ sign \in {<<>>, <<"+">>, <<"-">>}
            /\ \/ /\ AllDigits(whole)
                  /\ rest = <<>> \/ (rest[1] = "." /\ AllDigits(Tail(rest)))
                  /\ Len(whole) + Len(rest) >= 1
                  /\ rest # <<".">> \/ whole # <<>>
                  /\ \/ exp = <<>>
                     \/ /\ exp[1] \in {"e", "E"}
                        /\ LET d == IF Len(exp) >= 2 /\ exp[2] \in {"+", "-"}
                                    THEN SubSeq(exp, 3, Len(exp))
                                    ELSE Tail(exp)
                           IN  d # <<>> /\ AllDigits(d)
               \/ /\ rest = <<>> /\ exp = <<>>
                  /\ to_ascii_lowercase(whole)
                        \in {<<"i", "n", "f">>, <<"n", "a", "n">>,
                             <<"i", "n", "f", "i", "n", "i", "t", "y">>}

\* no rule of map_sensor_kind matches the name: it ends with none of the
\* three suffixes and holds none of the other words, in whatever case
NoRule(name) ==
    LET n == to_ascii_lowercase(name)
    IN  /\ \A f \in {"pm_1mm", "pm_2_5mm", "pm_10mm"} :
              ~ends_with(n, Pattern[f])
        /\ \A f \in DOMAIN Pattern \ {"pm_1mm", "pm_2_5mm", "pm_10mm"} :
              ~contains(n, Pattern[f])

\* a packet that carries no reading
BadData(p) == ~IsFloatLiteral(trim(p.payload)) \/ NoRule(LastSegment(p.topic))

\* C32: map_publish is total and silent on bad data.  For a publish whose
\* payload (without the blanks around it) is not a floating-point literal,
\* or whose last topic segment no rule matches, it returns None whatever the
\* topic is; and the pass of the receive loop that takes such a publish
\* sends no event, records no error and stays in the loop.
C32_BadDataIsDropped ==
    /\ [](\A k \in DOMAIN mapped : BadData(publish[k]) => mapped[k] = <<>>)
    /\ [][\A i \in Inst :
             (pubs'[i] # pubs[i] /\ BadData(publish[Len(mapped')]))
             => /\ emitted' = emitted
                /\ chan' = chan
                /\ reason' = reason
                /\ lpc'[i] = "recv"]_vars

\* a packet of a known sensor with a payload that is not a number has been
\* taken, and one of an unknown sensor with a number
C32_Witness ==
    /\ mapped = <<(<<>>)>>
    /\ pubs[1] = 1
    /\ lpc[1] = "recv"
    /\ Len(emitted[1]) = 2
    /\ publish[1].topic = <<"x", "/">> \o Pattern.co2
    /\ publish[1].payload = PayloadChars("not-a-number")

\* a and b are the same but for the case of their ASCII letters
SameButCase(a, b) ==
    /\ Len(a) = Len(b)
    /\ \A k \in DOMAIN a :
          \/ a[k] = b[k]
          \/ \E u \in DOMAIN UpperCase :
                {a[k], b[k]} = {UpperCase[u], LowerCase[u]}

\* the kind of the Metric event, None when there is none
KindOf(m) == IF m = <<>> THEN None ELSE m[1].kind

\* C33: classification depends neither on letter case nor on anything but
\* the last topic segment: two publishes with numeric payloads whose last
\* '/'-delimited topic segments differ at most in ASCII case get the same
\* kind, or are both unrecognized, whatever the segments before are.
C33_CaseAndPathDoNotMatter ==
    Len(mapped) = 2
    => (SameButCase(LastSegment(publish[1].topic),
                    LastSegment(publish[2].topic))
        => KindOf(mapped[1]) = KindOf(mapped[2]))

\* "pm_1_to_2_5" at the top and "PM_1_TO_2_5" under two segments that look
\* like other sensors are both PM2.5
C33_Witness ==
    /\ Len(mapped) = 2
    /\ publish[1].topic = Pattern.pm_1_to_2_5
    /\ publish[2].topic =
          <<"X", "/", "T", "e", "m", "p", "/">>
          \o <<"P", "M", "_", "1", "_", "T", "O", "_", "2", "_", "5">>
    /\ KindOf(mapped[1]) = "pm25"
    /\ KindOf(mapped[2]) = "pm25"

\* the places of the items whose id no earlier item has
FirstIdx(items) ==
    {k \in DOMAIN items : \A j \in 1..(k - 1) : items[j].id # items[k].id}

\* those items, in their order
Firsts(items) ==
    [n \in 1..Cardinality(FirstIdx(items)) |->
        items[CHOOSE k \in FirstIdx(items) :
                  Cardinality({j \in FirstIdx(items) : j <= k}) = n]]

\* the defaults whose id no item has
Missing(defaults, items) ==
    SelectSeq(defaults, LAMBDA d : \A k \in DOMAIN items : items[k].id # d.id)

\* the argument of the latest call of normalize
NormalizeInput == normalized[Len(normalized)]

\* C34: normalize keeps the first section of each id with its enabled flag,
\* and in it the first gauge of each id with its enabled flag; it drops the
\* later ones, keeps the order of what stays, and puts the missing built-in
\* gauges after the gauges of a section and the missing built-in sections
\* after the sections.
C34_FirstOccurrenceWins ==
    Len(normalized) >= 1 =>
        LET kept == Firsts(NormalizeInput)
            section(x) ==
                [id |-> x.id, enabled |-> x.enabled,
                 gauges |-> Firsts(x.gauges)
                            \o Missing(default_gauges_for(x.id), x.gauges)]
        IN  dashboard = [k \in DOMAIN kept |-> section(kept[k])]
                        \o Missing(default_sections, NormalizeInput)

\* two "gas" sections, the first switched off and with gauge "x" twice,
\* switched off and switched on
C34_Witness ==
    /\ Len(normalized) = 1
    /\ IdsOf(normalized[1]) = <<"gas", "gas">>
    /\ ~normalized[1][1].enabled
    /\ normalized[1][2].enabled
    /\ normalized[1][1].gauges = <<[id |-> "x", enabled |-> FALSE],
                                   [id |-> "x", enabled |-> TRUE]>>
    /\ Len(dashboard) = 4
    /\ ~dashboard[1].enabled
    /\ dashboard[1].gauges = <<[id |-> "x", enabled |-> FALSE],
                               [id |-> "co2", enabled |-> TRUE],
                               [id |-> "tvoc", enabled |-> TRUE]>>

\* C35: normalize invents nothing for unknown ids.  A section whose id is
\* not built-in ends with its input gauges without the later duplicates
\* (none stay none); every section id of the input is still there, and so
\* is every gauge id of the first section of each id; and a section or
\* gauge of the result that is not a built-in default was in the input.
C35_UnknownIdsKept ==
    Len(normalized) >= 1 =>
        LET inp == NormalizeInput
            out == dashboard
            at(id) == {n \in DOMAIN out : out[n].id = id}
        IN  /\ \A k \in DOMAIN inp : Cardinality(at(inp[k].id)) = 1
            /\ \A k \in FirstIdx(inp) : \A n \in at(inp[k].id) :
                  /\ inp[k].id \notin DOMAIN BuiltIn =>
                        out[n].gauges = Firsts(inp[k].gauges)
                  /\ \A g \in DOMAIN inp[k].gauges :
                        \E h \in DOMAIN out[n].gauges :
                            out[n].gauges[h].id = inp[k].gauges[g].id
                  /\ \A h \in DOMAIN out[n].gauges :
                        \/ \E g \in DOMAIN inp[k].gauges :
                              inp[k].gauges[g] = out[n].gauges[h]
                        \/ /\ out[n].id \in DOMAIN BuiltIn
                           /\ out[n].gauges[h].id \in BuiltIn[out[n].id]
            /\ \A n \in DOMAIN out :
                  out[n].id \notin DOMAIN BuiltIn =>
                      \E k \in DOMAIN inp : inp[k].id = out[n].id

\* two "custom" sections, the first without gauges: it stays without
C35_Witness ==
    /\ Len(normalized) = 1
    /\ IdsOf(normalized[1]) = <<"custom", "custom">>
    /\ normalized[1][1].gauges = <<>>
    /\ IdsOf(normalized[1][2].gauges) = <<"x", "co2">>
    /\ IdsOf(dashboard)
          = <<"custom", "overview", "air_quality", "gas", "environment">>
    /\ dashboard[1].gauges = <<>>

\* C36: the availability label is a total function of connected and the
\* age of last_update in whole seconds: "offline" whenever not connected,
\* whatever the age; "no data" when connected and never updated; otherwise
\* "fresh" for age <= 15, "stale" for 15 < age <= 60 and "stalled" for
\* age > 60.
C36_AvailabilityLabel ==
    drawn # <<>> =>
        LET d == drawn[1]
            age == CHOOSE a \in 0..d.elapsed :
                       2 * a <= d.elapsed /\ d.elapsed < 2 * (a + 1)
        IN  d.label =
               CASE ~d.connected -> "offline"
                 [] d.connected /\ d.last_update = <<>> -> "no data"
                 [] d.connected /\ d.last_update # <<>> /\ age <= 15 -> "fresh"
                 [] d.connected /\ d.last_update # <<>> /\ 15 < age
                    /\ age <= 60 -> "stale"
                 [] d.connected /\ d.last_update # <<>> /\ age > 60 -> "stalled"

\* a frame drawn 15.5 s after the reading says "fresh"
C36_Witness ==
    /\ drawn # <<>>
    /\ drawn[1].connected
    /\ drawn[1].last_update # <<>>
    /\ drawn[1].elapsed = 31
    /\ drawn[1].label = "fresh"

\* C37: applying a Status event changes only the status line, which
\* becomes the message: connected, every metric value, last_topic,
\* last_update and the listener handle are unchanged.
C37_StatusChangesOnlyStatus ==
    [][Applies("Status")
       => /\ status' = StatusLine(Head(chan).text, "", Head(chan).value)
          /\ connected' = connected
          /\ metrics' = metrics
          /\ mqtt_handle' = mqtt_handle
          /\ mqtt_stop' = mqtt_stop]_vars

\* a status line is applied while the snapshot says connected and holds a
\* reading
C37_Witness ==
    /\ applied # <<>>
    /\ Last(applied).type = "Status"
    /\ status = StatusLine("Processing data", "", 0)
    /\ connected
    /\ metrics.pm25 = <<255>>
    /\ metrics.last_update # <<>>

\* the lifecycle events (Connected, Disconnected) of a sequence of events
Lifecycle(seq) ==
    SelectSeq(seq, LAMBDA e : e.type \in {"Connected", "Disconnected"})

\* the consumer has applied every event that thread i has sent, and no
\* event of a listener started after i
Drained(i) ==
    /\ From(applied, i) = emitted[i]
    /\ \A n \in DOMAIN applied : applied[n].src <= i

\* C38: whenever a listener thread has exited, by a stop or by an error
\* return, the last lifecycle event it sent is not Connected, and once
\* the consumer has drained every event it sent the consumer's connected
\* flag is false.
C38_FinishedListenerIsDisconnected ==
    \A i \in Inst :
        lpc[i] = "done" =>
            /\ Lifecycle(emitted[i]) # <<>>
                    => Last(Lifecycle(emitted[i])).type = "Disconnected"
            /\ Drained(i) => ~connected

\* a listener was stopped in its session, with its Connected still in the
\* channel when stop_mqtt cleared the flag, and has been drained
C38_Witness ==
    \E i \in Inst :
        /\ lpc[i] = "done"
        /\ Drained(i)
        /\ Len(Lifecycle(emitted[i])) = 2
        /\ Last(emitted[i]).text = "stopped"
        /\ status = StatusLine("MQTT disconnected", "stopped", 0)
        /\ ~connected

\* the secret store agrees with the application: it holds the password
\* when remember_password is on and there is one, and nothing otherwise
StoreAgrees ==
    IF cfgMqtt.remember_password /\ password # <<>>
    THEN keyring = password
    ELSE keyring = <<>>

\* a step in which save_all runs: the Save button, the checkbox unless it
\* is checked with no password, and a password edit while
\* remember_password is on
SaveAllRuns ==
    \/ SaveClick
    \/ (RememberClick /\ ~(cfgMqtt'.remember_password /\ password = <<>>))
    \/ (EditPassword /\ cfgMqtt.remember_password)

\* C39 as stated: after every successful save_all the secret store agrees
\* with the application state: it holds exactly the application's current
\* password when remember_password is true, and holds no secret when
\* remember_password is false or the application has no password.
C39_StoreAgreesAfterSave ==
    [][(SaveAllRuns /\ status' = StatusLine("Saved settings", "", 0))
       => StoreAgrees']_vars

\* a step of forget_password
Forgets == apc = "ui" /\ secretLog' # secretLog
           /\ Last(secretLog').op = "delete"
           /\ status' \in {StatusLine("Removed saved password", "", 0),
                           StatusLine("Could not remove password", "", 0)}

\* C40: forget_password is all-or-nothing: when the delete of the secret
\* store fails, password and remember_password are unchanged and only the
\* status message changes; when it succeeds, also with no secret stored,
\* password becomes None and remember_password false.
C40_ForgetAllOrNothing ==
    [][Forgets =>
        IF Last(secretLog').result.ok
        THEN /\ password' = <<>>
             /\ ~cfgMqtt'.remember_password
             /\ keyring' = <<>>
        ELSE /\ password' = password
             /\ cfgMqtt' = cfgMqtt
             /\ keyring' = keyring
             /\ file' = file
             /\ status' = StatusLine("Could not remove password", "", 0)]_vars

\* the delete has failed on a remembered password, which is still there
C40_Witness ==
    /\ secretLog # <<>>
    /\ Last(secretLog).op = "delete"
    /\ ~Last(secretLog).result.ok
    /\ status = StatusLine("Could not remove password", "", 0)
    /\ password = <<"hunter2">>
    /\ cfgMqtt.remember_password
    /\ keyring = <<"hunter2">>

====
